---- MODULE Spec2Model ----
(***************************************************************************)
(* Zust API: the authentication / session-lifecycle core.                  *)
(*                                                                         *)
(* The account table (db/schema), the account queries (db/query), the JWT  *)
(* service (CreateToken / VerifyToken), AuthMiddleware and the handlers of *)
(* api/auth.go and api/account.go.  Every HTTP request runs in its own     *)
(* goroutine; a request slot of the model takes one step per database      *)
(* call, the local computation that follows a call belongs to its step.    *)
(* What a handler writes to the client is the value of its ...Response     *)
(* operator; the tokens of a 200 response enter the history `issued'.      *)
(* Time is counted in seconds.                                             *)
(***************************************************************************)
EXTENDS Integers, FiniteSets, Sequences, TLC

VARIABLES
    account,      \* the account table: account_id -> row, or NoRow
    now,          \* wall clock, seconds
    req,          \* the requests in flight between two database calls, one per slot
    issued,       \* history: every token handed out in a response, with what was given at issue
    handed,       \* history: the number of tokens handed out since the start
    incrCount,    \* history: per account, the IncrementTokenVersion calls completed
    baseVersion,  \* history: per account, token_version when the row first existed
    refreshOK,    \* history: per refresh token, the 200 responses of HandleRefreshToken
    mailed,       \* history: the verification tokens sendVerificationEmail has sent
    subscribe,    \* the subscribe table: pairs <<subscriber_id, subscribe_to_id>>
    video,        \* the video table: video_id -> row, or NoVideo
    written,      \* history: what HandleGetVideo wrote to the client, per request served
    files,        \* history: the files of the storage the handlers have written into
    callbacks     \* history: of the callbacks a failure of the provider has ended, the
                  \* calls made to the provider and what was written to the client

vars == <<account, now, req, issued, handed, incrCount, baseVersion, refreshOK,
          mailed, subscribe, video, written, files, callbacks>>

(***************************** bounds **************************************)

MaxAccounts == 2      \* rows the account table can hold
MaxVersion == 3       \* token_version is incremented only below this value
NumReq == 2           \* requests handled concurrently
MaxTicks == 1         \* the clock advances this many times
TickStep == 90        \* the clock advances in steps of this many seconds
MaxIssued == 2        \* tokens handed out since the start
MaxVideos == 2        \* rows the video table can hold
MaxServed == 2        \* requests HandleGetVideo serves in all

AccId == 1..MaxAccounts
VideoId == 1..MaxVideos
Req == 1..NumReq

(************************* program constants *******************************)

Leeway == 30                         \* jwt.WithLeeway(30 * time.Second)
Minute == 60
TokenExpirationTime == 1 * Minute          \* config.TokenExpirationTime * time.Minute
RefreshTokenExpirationTime == 2 * Minute   \* config.RefreshTokenExpirationTime * time.Minute
VerificationLinkTTL == 24 * 60 * Minute    \* 24*time.Hour in HandleVerify
SecretKey == "secret"                \* config.SecretKey
Issuer == "Zust"
RefreshPath == "/auth/token/refresh"

NULL == "NULL"                       \* a NULL column / sql.NullString{Valid: false}
Statuses == {"inactive", "active", "banned", "locked"}   \* account_status

(************************* the account table *******************************)

\* the error a query returns: "" for none, ErrNoRows, or the text of a failure of
\* the database itself
ErrNoRows == "sql: no rows in result set"
DbErrors == {"", "connection refused", "deadlock detected"}

NoRow == [status |-> "", token_version |-> 0, description |-> NULL, password |-> NULL,
          oauth_provider |-> NULL, oauth_provider_id |-> NULL,
          email |-> "", username |-> ""]

Exists(acc, id) == id \in AccId /\ acc[id] # NoRow

\* gen_random_UUID(): an id no row has
FreshId(acc) == CHOOSE id \in AccId : acc[id] = NoRow /\ \A j \in AccId : j < id => acc[j] # NoRow

\* the UNIQUE constraint an INSERT of (email, username) violates, "" when none;
\* PostgreSQL names the constraint of a UNIQUE column <table>_<column>_key
UniqueViolation(acc, email, username) ==
    IF \E id \in AccId : acc[id] # NoRow /\ acc[id].email = email THEN "account_email_key"
    ELSE IF \E id \in AccId : acc[id] # NoRow /\ acc[id].username = username THEN "account_username_key"
    ELSE ""

\* faulty variant: the default of the status column is 'active'
CreateAccountWithPasswordActive(acc, email, username, password) ==
    [acc EXCEPT ![FreshId(acc)] =
        [status |-> "active", token_version |-> 1, description |-> NULL, password |-> password,
         oauth_provider |-> NULL, oauth_provider_id |-> NULL,
         email |-> email, username |-> username]]

\* INSERT INTO account (email, username, password): status and token_version take their defaults
CreateAccountWithPassword(acc, email, username, password) ==
    [acc EXCEPT ![FreshId(acc)] =
        [status |-> "inactive", token_version |-> 1, description |-> NULL, password |-> password,
         oauth_provider |-> NULL, oauth_provider_id |-> NULL,
         email |-> email, username |-> username]]

\* faulty variant: the INSERT also stores the digest of an empty password
CreateAccountWithOAuthHashed(acc, email, username, provider, providerID) ==
    [acc EXCEPT ![FreshId(acc)] =
        [status |-> "active", token_version |-> 1, description |-> NULL, password |-> <<"$2a$", "s1", <<"s1", "">>>>,
         oauth_provider |-> provider, oauth_provider_id |-> providerID,
         email |-> email, username |-> username]]

\* INSERT INTO account (email, username, avatar, status, oauth_provider, oauth_provider_id)
CreateAccountWithOAuth(acc, email, username, provider, providerID) ==
    [acc EXCEPT ![FreshId(acc)] =
        [status |-> "active", token_version |-> 1, description |-> NULL, password |-> NULL,
         oauth_provider |-> provider, oauth_provider_id |-> providerID,
         email |-> email, username |-> username]]

\* SELECT ... WHERE username = $1: the ids of the matching rows (username is UNIQUE)
GetAccountByUsername(acc, username) ==
    {id \in AccId : acc[id] # NoRow /\ acc[id].username = username}

\* SELECT ... WHERE email = $1: the ids of the matching rows (email is UNIQUE)
GetAccountByEmail(acc, email) ==
    {id \in AccId : acc[id] # NoRow /\ acc[id].email = email}

\* faulty variant: activation also resets the token version to its default
ActivateAccountReset(acc, id) ==
    IF Exists(acc, id) THEN [acc EXCEPT ![id].status = "active", ![id].token_version = 1] ELSE acc

\* UPDATE account SET status = 'active' WHERE account_id = $1
ActivateAccount(acc, id) ==
    IF Exists(acc, id) THEN [acc EXCEPT ![id].status = "active"] ELSE acc

\* SELECT ... WHERE oauth_provider = $1 AND oauth_provider_id = $2: the ids of the matching rows
LoginWithOAuth(acc, provider, providerID) ==
    {id \in AccId : acc[id] # NoRow /\ acc[id].oauth_provider = provider
                    /\ acc[id].oauth_provider_id = providerID}

\* SELECT EXISTS (SELECT 1 FROM account WHERE oauth_provider = $1 AND oauth_provider_id = $2)
IsAccountRegistered(acc, provider, providerID) ==
    LoginWithOAuth(acc, provider, providerID) # {}

\* SELECT token_version FROM account WHERE account_id = $1; 0 stands for sql.ErrNoRows
GetTokenVersion(acc, id) ==
    IF Exists(acc, id) THEN acc[id].token_version ELSE 0

\* the error of the GetTokenVersion query when the database answers dbErr
GetTokenVersionErr(acc, id, dbErr) ==
    IF dbErr # "" THEN dbErr ELSE IF ~Exists(acc, id) THEN ErrNoRows ELSE ""

\* faulty variant: the new version is computed from a stale read of the initial version
IncrementTokenVersionLost(acc, id) ==
    IF Exists(acc, id) THEN [acc EXCEPT ![id].token_version = 2] ELSE acc

\* faulty variant: the UPDATE matches no row
IncrementTokenVersionNone(acc, id) == acc

\* faulty variant: the UPDATE has no WHERE clause and raises the version of every row
IncrementTokenVersionAll(acc, id) ==
    [a \in AccId |-> IF acc[a] # NoRow THEN [acc[a] EXCEPT !.token_version = @ + 1] ELSE acc[a]]

\* UPDATE account SET token_version = token_version + 1 WHERE account_id = $1
IncrementTokenVersion(acc, id) ==
    IF Exists(acc, id) THEN [acc EXCEPT ![id].token_version = @ + 1] ELSE acc

\* UPDATE account SET status = 'locked' WHERE account_id = $1
LockAccount(acc, id) ==
    IF Exists(acc, id) THEN [acc EXCEPT ![id].status = "locked"] ELSE acc

\* UPDATE account SET username = $2, description = $3 WHERE account_id = $1
\* RETURNING ...: the error of the query, "" when the row is updated
EditProfileErr(acc, id, username) ==
    IF ~Exists(acc, id) THEN ErrNoRows
    ELSE IF \E a \in AccId \ {id} : acc[a] # NoRow /\ acc[a].username = username
    THEN "account_username_key"
    ELSE ""

EditProfile(acc, id, username, description) ==
    IF EditProfileErr(acc, id, username) # "" THEN acc
    ELSE [acc EXCEPT ![id].username = username, ![id].description = description]

(*************************** the subscribe table ***************************)

\* INSERT INTO subscribe (subscriber_id, subscribe_to_id): the constraint it violates
\* (the primary key, or a foreign key to account), "" when the row is inserted
SubscribeErr(sub, acc, subscriberID, subscribeToID) ==
    IF <<subscriberID, subscribeToID>> \in sub THEN "subscribe_pkey"
    ELSE IF ~Exists(acc, subscriberID) THEN "subscribe_subscriber_id_fkey"
    ELSE IF ~Exists(acc, subscribeToID) THEN "subscribe_subscribe_to_id_fkey"
    ELSE ""

Subscribe(sub, acc, subscriberID, subscribeToID) ==
    IF SubscribeErr(sub, acc, subscriberID, subscribeToID) # "" THEN sub
    ELSE sub \cup {<<subscriberID, subscribeToID>>}

\* DELETE FROM subscribe WHERE subscriber_id = $1 AND subscribe_to_id = $2
Unsubscribe(sub, subscriberID, subscribeToID) == sub \ {<<subscriberID, subscribeToID>>}

(*************************** the video table *******************************)

NoVideo == [status |-> "", publisher_id |-> 0]

\* video_status as the handlers know it (db.VideoStatusDeleted, db.VideoStatusPending)
\* with the 'published' of the schema
VideoStatuses == {"published", "deleted", "pending"}

\* SELECT ... FROM video WHERE video_id = $1: the error of the query, "" when a row
\* is found; dbErr is a failure of the database itself
GetVideoErr(vid, id, dbErr) ==
    IF dbErr # "" THEN dbErr
    ELSE IF id \notin VideoId \/ vid[id] = NoVideo THEN ErrNoRows
    ELSE ""

(***************************** passwords ***********************************)

\* the salts bcrypt.GenerateFromPassword can draw from crypto/rand
Salts == {"s1", "s2"}

\* the bcrypt hash of a plaintext under a salt
BcryptDigest(salt, str) == <<salt, str>>

\* bcrypt.GenerateFromPassword: version prefix, the salt drawn, and the hash of the
\* plaintext under that salt
BcryptHash(str, salt) == <<"$2a$", salt, BcryptDigest(salt, str)>>

\* bcrypt.CompareHashAndPassword(...) == nil: an error (false) for a digest that is
\* too short or has another version prefix; otherwise the plaintext is hashed under
\* the salt of the digest and the result compared with the hash of the digest
BcryptCompare(hashedStr, plainStr) ==
    /\ Len(hashedStr) = 3
    /\ hashedStr[1] = "$2a$"
    /\ hashedStr[3] = BcryptDigest(hashedStr[2], plainStr)

(***************************** JWT service *********************************)

NoToken == [alg |-> "", id |-> 0, token_type |-> "", version |-> 0,
            iss |-> "", sub |-> 0, iat |-> 0, exp |-> 0, sig |-> ""]

\* the signing methods of type *jwt.SigningMethodHMAC
HmacFamily == {"HS256", "HS384", "HS512"}

\* a string that is not three base64 segments (the empty string included): the
\* parser answers jwt.ErrTokenMalformed
Malformed(tok) == tok = NoToken

\* strings.TrimSpace, on the token types the callers of CreateToken pass
TrimSpace(str) ==
    CASE str = " access-token" -> "access-token"
      [] str = "refresh-token " -> "refresh-token"
      [] str = "  " -> ""
      [] OTHER -> str

\* faulty variant: the Version claim is left out of CustomClaims (zero value)
CreateTokenNoVersion(accID, tokenType, version, expiration, t) ==
    IF TrimSpace(tokenType) # "refresh-token" /\ TrimSpace(tokenType) # "access-token"
    THEN [err |-> "invalid token type, only accept refresh-token or access-token", token |-> NoToken]
    ELSE [err |-> "",
          token |-> [alg |-> "HS256", id |-> accID, token_type |-> TrimSpace(tokenType),
                     version |-> 0, iss |-> Issuer, sub |-> accID,
                     iat |-> t, exp |-> t + expiration, sig |-> SecretKey]]

\* JWTService.CreateToken: the signed token, or NoToken with an error
CreateToken(accID, tokenType, version, expiration, t) ==
    IF TrimSpace(tokenType) # "refresh-token" /\ TrimSpace(tokenType) # "access-token"
    THEN [err |-> "invalid token type, only accept refresh-token or access-token", token |-> NoToken]
    ELSE [err |-> "",
          token |-> [alg |-> "HS256", id |-> accID, token_type |-> TrimSpace(tokenType),
                     version |-> version, iss |-> Issuer, sub |-> accID,
                     iat |-> t, exp |-> t + expiration, sig |-> SecretKey]]

NoClaims == [ID |-> 0, TokenType |-> "", Version |-> 0, Issuer |-> "", ExpiresAt |-> 0]

\* the claims a parsed token carries (CustomClaims)
ClaimsOf(tok) ==
    [ID |-> tok.id, TokenType |-> tok.token_type, Version |-> tok.version,
     Issuer |-> tok.iss, ExpiresAt |-> tok.exp]

\* faulty variant: the version is looked up right after the parse, before the issuer
\* and the token type are checked
VerifyTokenLookupFirst(tok, acc, t, dbErr) ==
    IF Malformed(tok) THEN [err |-> "token is malformed", claims |-> NoClaims]
    ELSE IF tok.alg \notin HmacFamily THEN [err |-> "unexpected signing method", claims |-> NoClaims]
    ELSE IF tok.sig # SecretKey THEN [err |-> "signature is invalid", claims |-> NoClaims]
    ELSE IF ~(t < tok.exp + Leeway) THEN [err |-> "token is expired", claims |-> NoClaims]
    ELSE IF GetTokenVersionErr(acc, tok.id, dbErr) # ""
         THEN [err |-> "cannot get token version from database: "
                        \o GetTokenVersionErr(acc, tok.id, dbErr),
               claims |-> NoClaims]
    ELSE IF GetTokenVersion(acc, tok.id) # tok.version
         THEN [err |-> "token version is not valid", claims |-> NoClaims]
    ELSE IF tok.iss # Issuer THEN [err |-> "invalid issuer", claims |-> NoClaims]
    ELSE IF tok.token_type # "refresh-token" /\ tok.token_type # "access-token"
         THEN [err |-> "invalid token type", claims |-> NoClaims]
    ELSE [err |-> "", claims |-> ClaimsOf(tok)]

\* JWTService.VerifyToken up to the version lookup: parse (segments, signing method,
\* signature, expiry with leeway), issuer and token type
ParseClaims(tok, t) ==
    IF Malformed(tok) THEN [err |-> "token is malformed", claims |-> NoClaims]
    ELSE IF tok.alg \notin HmacFamily THEN [err |-> "unexpected signing method", claims |-> NoClaims]
    ELSE IF tok.sig # SecretKey THEN [err |-> "signature is invalid", claims |-> NoClaims]
    ELSE IF ~(t < tok.exp + Leeway) THEN [err |-> "token is expired", claims |-> NoClaims]
    ELSE IF tok.iss # Issuer THEN [err |-> "invalid issuer", claims |-> NoClaims]
    ELSE IF tok.token_type # "refresh-token" /\ tok.token_type # "access-token"
         THEN [err |-> "invalid token type", claims |-> NoClaims]
    ELSE [err |-> "", claims |-> ClaimsOf(tok)]

\* the GetTokenVersion queries one call of VerifyToken sends to the store
StoreLookups(tok, t) == IF ParseClaims(tok, t).err = "" THEN 1 ELSE 0

\* faulty variant: the version of the token is not compared with the store
VerifyTokenNoVersion(tok, acc, t, dbErr) ==
    IF Malformed(tok) THEN [err |-> "token is malformed", claims |-> NoClaims]
    ELSE IF tok.alg \notin HmacFamily THEN [err |-> "unexpected signing method", claims |-> NoClaims]
    ELSE IF tok.sig # SecretKey THEN [err |-> "signature is invalid", claims |-> NoClaims]
    ELSE IF ~(t < tok.exp + Leeway) THEN [err |-> "token is expired", claims |-> NoClaims]
    ELSE IF tok.iss # Issuer THEN [err |-> "invalid issuer", claims |-> NoClaims]
    ELSE IF tok.token_type # "refresh-token" /\ tok.token_type # "access-token"
         THEN [err |-> "invalid token type", claims |-> NoClaims]
    ELSE IF GetTokenVersionErr(acc, tok.id, dbErr) # ""
         THEN [err |-> "cannot get token version from database: "
                        \o GetTokenVersionErr(acc, tok.id, dbErr),
               claims |-> NoClaims]
    ELSE [err |-> "", claims |-> ClaimsOf(tok)]

\* faulty variant: the parser is built without jwt.WithLeeway
VerifyTokenNoLeeway(tok, acc, t, dbErr) ==
    IF Malformed(tok) THEN [err |-> "token is malformed", claims |-> NoClaims]
    ELSE IF tok.alg \notin HmacFamily THEN [err |-> "unexpected signing method", claims |-> NoClaims]
    ELSE IF tok.sig # SecretKey THEN [err |-> "signature is invalid", claims |-> NoClaims]
    ELSE IF ~(t < tok.exp) THEN [err |-> "token is expired", claims |-> NoClaims]
    ELSE IF tok.iss # Issuer THEN [err |-> "invalid issuer", claims |-> NoClaims]
    ELSE IF tok.token_type # "refresh-token" /\ tok.token_type # "access-token"
         THEN [err |-> "invalid token type", claims |-> NoClaims]
    ELSE IF GetTokenVersionErr(acc, tok.id, dbErr) # ""
         THEN [err |-> "cannot get token version from database: "
                        \o GetTokenVersionErr(acc, tok.id, dbErr),
               claims |-> NoClaims]
    ELSE IF GetTokenVersion(acc, tok.id) # tok.version
         THEN [err |-> "token version is not valid", claims |-> NoClaims]
    ELSE [err |-> "", claims |-> ClaimsOf(tok)]

\* JWTService.VerifyToken: parse (segments, signing method, signature, expiry with
\* leeway), issuer, token type, then the version of the store; dbErr is what the
\* database answers to the GetTokenVersion query
VerifyToken(tok, acc, t, dbErr) ==
    IF Malformed(tok) THEN [err |-> "token is malformed", claims |-> NoClaims]
    ELSE IF tok.alg \notin HmacFamily THEN [err |-> "unexpected signing method", claims |-> NoClaims]
    ELSE IF tok.sig # SecretKey THEN [err |-> "signature is invalid", claims |-> NoClaims]
    ELSE IF ~(t < tok.exp + Leeway) THEN [err |-> "token is expired", claims |-> NoClaims]
    ELSE IF tok.iss # Issuer THEN [err |-> "invalid issuer", claims |-> NoClaims]
    ELSE IF tok.token_type # "refresh-token" /\ tok.token_type # "access-token"
         THEN [err |-> "invalid token type", claims |-> NoClaims]
    ELSE IF GetTokenVersionErr(acc, tok.id, dbErr) # ""
         THEN [err |-> "cannot get token version from database: "
                        \o GetTokenVersionErr(acc, tok.id, dbErr),
               claims |-> NoClaims]
    ELSE IF GetTokenVersion(acc, tok.id) # tok.version
         THEN [err |-> "token version is not valid", claims |-> NoClaims]
    ELSE [err |-> "", claims |-> ClaimsOf(tok)]

(************************ requests and responses ***************************)

\* a response: status code, message and, for loginResponse, the account ID and the
\* tokens; status 0 stands for "no response yet, the request goes on"
NoResponse == [status |-> 0, msg |-> "", id |-> 0, access |-> NoToken, refresh |-> NoToken]

\* userData fetched from an OAuth provider
NoUser == [ID |-> "", Username |-> "", Email |-> ""]

\* the row checkAccountStatus returns to HandleEditProfile, before any is read
NoProfile == [username |-> "", description |-> NULL]

\* subscribeRequest, before the body is decoded
NoBody == [subscriber_id |-> 0, subscribe_to_id |-> 0]

\* a request slot: wrote is what the handler has written to the client so far,
\* oldProfile and body what it has read, created the ID of the row its INSERT (for
\* HandleResendVerification, its SELECT) has returned, resp the loginResponse it has
\* built and not yet written, calls the calls it has made to the OAuth provider,
\* stamp the time.Now() of the verification token it has built; pc = "ready" when
\* no request is being handled in it
IdleReq == [pc |-> "ready", ep |-> "", path |-> "", pathID |-> 0, token |-> NoToken,
            claims |-> NoClaims, provider |-> "", userData |-> NoUser,
            wrote |-> <<>>, oldProfile |-> NoProfile, body |-> NoBody,
            created |-> 0, resp |-> NoResponse, calls |-> <<>>, stamp |-> 0]

\* server.WriteError(w, status, message)
WriteError(status, message) == [NoResponse EXCEPT !.status = status, !.msg = message]

\* server.WriteJSON(w, status, data) with a message as data
WriteJSON(status, message) == [NoResponse EXCEPT !.status = status, !.msg = message]

\* server.WriteJSON(w, http.StatusOK, loginResponse{...})
WriteLogin(accID, accessToken, refreshToken) ==
    [NoResponse EXCEPT !.status = 200, !.id = accID,
                       !.access = accessToken, !.refresh = refreshToken]

\* what the client receives: the status code of the first WriteHeader (net/http
\* ignores the later ones) and the JSON documents of all the writes, in order; 200
\* and no body when the handler returns without a write
ClientResponse(writes) ==
    IF writes = <<>> THEN [status |-> 200, bodies |-> <<>>]
    ELSE [status |-> writes[1].status, bodies |-> [i \in 1..Len(writes) |-> writes[i].msg]]

\* the request of slot r is answered
Done(r) == req' = [req EXCEPT ![r] = IdleReq]

\* history record of one token handed to a client: the token, what CreateToken was
\* given, the stored version when it was handed out, and the operation ("login" for
\* the login responses, "register" for the response of an OAuth registration,
\* "refresh" for HandleRefreshToken)
IssueRec(tok, accID, tokenType, version, acc, by) ==
    [token |-> tok, accID |-> accID, tokenType |-> tokenType, version |-> version,
     stored |-> GetTokenVersion(acc, accID), by |-> by]

\* the history records of the tokens of a login response
LoginIssued(rsp, acc, by) ==
    IF rsp.status # 200 THEN {}
    ELSE {IssueRec(rsp.access, rsp.id, "access-token", acc[rsp.id].token_version, acc, by),
          IssueRec(rsp.refresh, rsp.id, "refresh-token", acc[rsp.id].token_version, acc, by)}

\* the history records of the tokens of a loginResponse built earlier (rsp), handed
\* out now on the table acc
HandedOut(rsp, acc, by) ==
    IF rsp.status # 200 THEN {}
    ELSE {IssueRec(rsp.access, rsp.id, "access-token", rsp.access.version, acc, by),
          IssueRec(rsp.refresh, rsp.id, "refresh-token", rsp.refresh.version, acc, by)}

\* the tokens of the history stay within the bound
Issue(new) ==
    /\ handed + Cardinality(new \ issued) <= MaxIssued
    /\ issued' = issued \cup new
    /\ handed' = handed + Cardinality(new \ issued)

\* the token of a verification link before its base64 encoding: "<id>|<UnixNano>"
VerificationToken(id, timestamp) == [id |-> id, timestamp |-> timestamp]

\* history record of a link sendVerificationEmail has sent: the token, and the
\* handler that called it ("register" or "resend")
MailRec(token, by) == [id |-> token.id, timestamp |-> token.timestamp, by |-> by]

Bump(f, x) ==
    [y \in DOMAIN f \cup {x} |-> IF y = x THEN (IF x \in DOMAIN f THEN f[x] + 1 ELSE 1) ELSE f[y]]

(******************************* inputs ************************************)

Usernames == {"u1", "u2"}
Emails == {"e1", "e2"}
Passwords == {"pw", "bad"}
Providers == {"github", "google"}
\* the profiles FetchUser returns: the provider's ID of a user with the login name
\* and the email the provider holds for it
OAuthUsers == {[ID |-> "x1", Username |-> "u1", Email |-> "e1"],
               [ID |-> "x2", Username |-> "u2", Email |-> "e2"]}

\* the same, when the user x1 can change login name and email at the provider
\* between two calls of FetchUser
OAuthProfiles == OAuthUsers \cup {[ID |-> "x1", Username |-> "u2", Email |-> "e2"]}

\* the routes RegisterHandler wraps in AuthMiddleware whose handlers are modelled
AuthEndpoints == {"POST /auth/token/refresh", "POST /auth/logout", "POST /accounts/{id}/lock"}

\* r.URL.Path of a request on endpoint ep
PathOf(ep) ==
    CASE ep = "POST /auth/token/refresh" -> RefreshPath
      [] ep = "POST /auth/logout" -> "/auth/logout"
      [] ep = "POST /accounts/{id}/lock" -> "/accounts/{id}/lock"
      [] ep = "PUT /accounts/{id}" -> "/accounts/{id}"
      [] ep = "POST /accounts/{id}/unlock" -> "/accounts/{id}/unlock"
      [] ep = "POST /subscribe" -> "/subscribe"
      [] ep = "DELETE /subscribe" -> "/subscribe"
      [] ep = "POST /videos/" -> "/videos/"
      [] OTHER -> ""

\* every route RegisterHandler wraps in AuthMiddleware
ProtectedRoutes ==
    AuthEndpoints \cup {"PUT /accounts/{id}", "POST /accounts/{id}/unlock", "POST /subscribe",
                        "DELETE /subscribe", "POST /videos/"}

(******************************** Init *************************************)

\* The database is durable and tokens are stateless: the server starts on a table
\* that holds one account of any status, registered by password or by OAuth, whose
\* earlier login (while it was active) handed out an access and a refresh token.
SeedRow(status, byPassword) ==
    [status |-> status, token_version |-> 1, description |-> NULL,
     password |-> IF byPassword THEN BcryptHash("pw", "s1") ELSE NULL,
     oauth_provider |-> IF byPassword THEN NULL ELSE "github",
     oauth_provider_id |-> IF byPassword THEN NULL ELSE "x1",
     email |-> "e1", username |-> "u1"]

SeedTable(status, byPassword) ==
    [id \in AccId |-> IF id = 1 THEN SeedRow(status, byPassword) ELSE NoRow]

SeedIssued(acc) ==
    {IssueRec(CreateToken(1, "access-token", 1, TokenExpirationTime, 0).token,
              1, "access-token", 1, acc, "login"),
     IssueRec(CreateToken(1, "refresh-token", 1, RefreshTokenExpirationTime, 0).token,
              1, "refresh-token", 1, acc, "login")}

Init ==
    /\ \E status \in Statuses, byPassword \in BOOLEAN :
          /\ account = SeedTable(status, byPassword)
          /\ issued = IF status = "inactive" THEN {}
                      ELSE SeedIssued(SeedTable(status, byPassword))
    /\ now = 0
    /\ handed = 0
    /\ req = [r \in Req |-> IdleReq]
    /\ incrCount = [id \in AccId |-> 0]
    /\ baseVersion = [id \in AccId |-> IF id = 1 THEN 1 ELSE 0]
    /\ refreshOK = [x \in {} |-> 0]
    /\ mailed = IF account[1].status = "inactive" /\ account[1].password # NULL
                THEN {MailRec(VerificationToken(1, 0), "register")} ELSE {}
    /\ subscribe = {}
    /\ video = [v \in VideoId |-> NoVideo]
    /\ written = {}
    /\ files = {}
    /\ callbacks = {}

\* the server of a new deployment: the schema has just been created, the table is empty
InitFresh ==
    /\ account = [id \in AccId |-> NoRow]
    /\ issued = {}
    /\ now = 0
    /\ handed = 0
    /\ req = [r \in Req |-> IdleReq]
    /\ incrCount = [id \in AccId |-> 0]
    /\ baseVersion = [id \in AccId |-> 0]
    /\ refreshOK = [x \in {} |-> 0]
    /\ mailed = {}
    /\ subscribe = {}
    /\ video = [v \in VideoId |-> NoVideo]
    /\ written = {}
    /\ files = {}
    /\ callbacks = {}

(************************ password auth handlers ***************************)

\* faulty variant: the second CreateToken call is a copy of the first
LoginResponseForCopy(acc, accID, t) ==
    LET accessToken == CreateToken(accID, "access-token", acc[accID].token_version,
                                   TokenExpirationTime, t)
    IN IF accessToken.err # ""
       THEN WriteError(500, "Internal server error")
       ELSE WriteLogin(accID, accessToken.token, accessToken.token)

\* the tokens of a login for the row acc[accID]: both are stamped with its token_version
LoginResponseFor(acc, accID, t) ==
    LET accessToken == CreateToken(accID, "access-token", acc[accID].token_version,
                                   TokenExpirationTime, t)
        refreshToken == CreateToken(accID, "refresh-token", acc[accID].token_version,
                                    RefreshTokenExpirationTime, t)
    IN IF accessToken.err # "" \/ refreshToken.err # ""
       THEN WriteError(500, "Internal server error")
       ELSE WriteLogin(accID, accessToken.token, refreshToken.token)

\* faulty variant: the status of the account is not checked
LoginResponseNoStatus(acc, t, username, password, dbErr) ==
    LET ids == GetAccountByUsername(acc, username)
        a == CHOOSE id \in ids : TRUE
    IN IF dbErr # "" THEN WriteError(500, "Internal server error")
       ELSE IF ids = {} THEN WriteError(400, "Invalid username or password")
       ELSE IF acc[a].password = NULL
            THEN WriteError(400, "Account does not have a password, please login with OAuth provider")
       ELSE IF ~BcryptCompare(acc[a].password, password)
            THEN WriteError(400, "Invalid username or password")
       ELSE LoginResponseFor(acc, a, t)

\* what HandleLogin answers; dbErr is what the database answers to GetAccountByUsername
LoginResponse(acc, t, username, password, dbErr) ==
    LET ids == GetAccountByUsername(acc, username)
        a == CHOOSE id \in ids : TRUE
    IN IF dbErr # "" THEN WriteError(500, "Internal server error")
       ELSE IF ids = {} THEN WriteError(400, "Invalid username or password")
       ELSE IF acc[a].status # "active" THEN WriteError(403, "Account is not active")
       ELSE IF acc[a].password = NULL
            THEN WriteError(400, "Account does not have a password, please login with OAuth provider")
       ELSE IF ~BcryptCompare(acc[a].password, password)
            THEN WriteError(400, "Invalid username or password")
       ELSE LoginResponseFor(acc, a, t)

\* faulty variant: a successful login raises the token_version of the account
HandleLoginRotating(username, password, dbErr) ==
    /\ Issue(LoginIssued(LoginResponse(account, now, username, password, dbErr), account, "login"))
    /\ account' = IF LoginResponse(account, now, username, password, dbErr).status = 200
                  THEN IncrementTokenVersion(account,
                                             LoginResponse(account, now, username, password, dbErr).id)
                  ELSE account
    /\ UNCHANGED <<now, req, incrCount, baseVersion, refreshOK,
                   mailed, subscribe, video, written, files, callbacks>>

\* HandleLogin: POST /auth/login
HandleLogin(username, password, dbErr) ==
    /\ Issue(LoginIssued(LoginResponse(account, now, username, password, dbErr), account, "login"))
    /\ UNCHANGED <<account, now, req, incrCount, baseVersion, refreshOK,
                   mailed, subscribe, video, written, files, callbacks>>

\* the response of a handler to a failed INSERT into account
CreateError(violation) ==
    IF violation = "accounts_email_key" THEN WriteError(400, "Email is already taken")
    ELSE IF violation = "accounts_username_key" THEN WriteError(400, "Username is already taken")
    ELSE WriteError(500, "Failed to create account")

\* what HandleRegister answers to a request whose INSERT runs on the table acc
RegisterResponse(acc, email, username, repoOK, mailOK) ==
    IF UniqueViolation(acc, email, username) # ""
    THEN CreateError(UniqueViolation(acc, email, username))
    ELSE IF ~repoOK THEN WriteError(500, "Internal server error")
    ELSE IF ~mailOK
    THEN WriteError(500, "Account created successfully, but failed to send verification email")
    ELSE WriteJSON(200, "Account created successfully")

\* what the file system does to CreateUserRepo while it creates one of the two
\* default images: the image is created, MkdirAll fails (before the avatar only),
\* the asset cannot be opened or the file cannot be created, or the copy fails
RepoOutcomes == {"ok", "mkdir failed", "open failed", "copy failed"}

\* what is there of the image file of account id after the outcome repo (os.Create
\* comes before io.Copy)
RepoWritten(id, file, repo) ==
    IF repo \in {"mkdir failed", "open failed"} THEN {} ELSE {<<id, file>>}

\* the error of the INSERT of CreateAccountWithPassword and CreateAccountWithOAuth;
\* dbErr is a failure of the database itself
InsertErr(acc, email, username, dbErr) ==
    IF dbErr # "" THEN dbErr ELSE UniqueViolation(acc, email, username)

\* HandleRegister up to the INSERT: POST /auth/register; salt is what BcryptHash
\* draws, dbErr what the database answers to the INSERT.  A request whose INSERT
\* fails is answered at once; the row the INSERT returns is kept for CreateUserRepo
\* and sendVerificationEmail.
HandleRegister(r, email, username, password, salt, dbErr) ==
    /\ req[r].pc = "ready"
    /\ IF InsertErr(account, email, username, dbErr) # ""
       THEN UNCHANGED <<account, baseVersion, req>>
       ELSE /\ \E id \in AccId : account[id] = NoRow
            /\ account' = CreateAccountWithPassword(account, email, username,
                                                       BcryptHash(password, salt))
            /\ baseVersion' = [baseVersion EXCEPT ![FreshId(account)] = 1]
            /\ req' = [req EXCEPT ![r] = [IdleReq EXCEPT !.pc = "register",
                                                         !.ep = "POST /auth/register",
                                                         !.created = FreshId(account)]]
    /\ UNCHANGED <<now, issued, handed, incrCount, refreshOK, mailed, subscribe, video, written, files, callbacks>>

\* what HandleRegister answers after the INSERT; repoOK and mailOK are the outcomes
\* of CreateUserRepo and sendVerificationEmail
RegisterMailResponse(repoOK, mailOK) ==
    IF ~repoOK THEN WriteError(500, "Internal server error")
    ELSE IF ~mailOK
    THEN WriteError(500, "Account created successfully, but failed to send verification email")
    ELSE WriteJSON(200, "Account created successfully")

\* HandleRegister, the CreateUserRepo call up to the avatar (outcome repo): the
\* directories and avatar.png of the new account.  A request whose CreateUserRepo
\* fails is answered 500; otherwise CreateUserRepo goes on to the cover.
HandleRegisterRepo(r, repo) ==
    /\ req[r].pc = "register"
    /\ files' = files \cup RepoWritten(req[r].created, "avatar.png", repo)
    /\ req' = [req EXCEPT ![r] =
          IF RegisterMailResponse(repo = "ok", TRUE).status # 200 THEN IdleReq
          ELSE [req[r] EXCEPT !.pc = "register_cover"]]
    /\ UNCHANGED <<account, now, issued, handed, incrCount, baseVersion, refreshOK,
                   mailed, subscribe, video, written, callbacks>>

\* HandleRegister, the rest of the CreateUserRepo call (outcome repo): cover.png of
\* the new account.  A request whose CreateUserRepo fails is answered 500; otherwise
\* sendVerificationEmail builds the token with the time of this step and goes on to
\* send the mail.
HandleRegisterRepoCover(r, repo) ==
    /\ req[r].pc = "register_cover"
    /\ files' = files \cup RepoWritten(req[r].created, "cover.png", repo)
    /\ req' = [req EXCEPT ![r] =
          IF RegisterMailResponse(repo = "ok", TRUE).status # 200 THEN IdleReq
          ELSE [req[r] EXCEPT !.pc = "register_mail", !.stamp = now]]
    /\ UNCHANGED <<account, now, issued, handed, incrCount, baseVersion, refreshOK,
                   mailed, subscribe, video, written, callbacks>>

\* HandleRegister, the SendEmail call of sendVerificationEmail (outcome mailOK): the
\* link built before the call is mailed, and the request is answered
HandleRegisterMail(r, mailOK) ==
    /\ req[r].pc = "register_mail"
    /\ mailed' = IF RegisterMailResponse(TRUE, mailOK).status = 200
                 THEN mailed \cup {MailRec(VerificationToken(req[r].created, req[r].stamp),
                                           "register")}
                 ELSE mailed
    /\ Done(r)
    /\ UNCHANGED <<account, now, issued, handed, incrCount, baseVersion, refreshOK,
                   subscribe, video, written, files, callbacks>>

\* what HandleVerify answers; dbErr is what the database answers to the UPDATE of
\* ActivateAccount (an UPDATE of no row is no error)
VerifyResponse(t, timestamp, dbErr) ==
    IF t - timestamp > VerificationLinkTTL THEN WriteError(400, "Token has expired")
    ELSE IF dbErr # "" THEN WriteError(500, "Failed to verify account")
    ELSE WriteJSON(200, "Account verified successfully")

\* HandleVerify: GET /auth/verification?token=base64(id|timestamp)
HandleVerify(id, timestamp, dbErr) ==
    /\ account' = IF VerifyResponse(now, timestamp, dbErr).status = 200
                  THEN ActivateAccount(account, id) ELSE account
    /\ UNCHANGED <<now, req, issued, handed, incrCount, baseVersion, refreshOK,
                   mailed, subscribe, video, written, files, callbacks>>

\* what HandleResendVerification answers; dbErr is what the database answers to
\* GetAccountByEmail, mailOK the outcome of sendVerificationEmail
ResendResponse(acc, email, dbErr, mailOK) ==
    LET ids == GetAccountByEmail(acc, email)
        a == CHOOSE id \in ids : TRUE
    IN IF dbErr # "" THEN WriteError(500, "Internal server error")
       ELSE IF ids = {} THEN WriteError(400, "Account with this email does not exist")
       ELSE IF acc[a].status # "inactive" THEN WriteError(400, "Account is " \o acc[a].status)
       ELSE IF ~mailOK THEN WriteError(500, "Failed to send verification email")
       ELSE WriteJSON(200, "Verification email sent successfully")

\* HandleResendVerification up to the mail: POST /auth/verification/resend?email=...,
\* the GetAccountByEmail query and the status check.  A request that fails them is
\* answered at once; otherwise sendVerificationEmail builds the token of the row that
\* was read, with the time of this step, and goes on to send the mail.
HandleResendVerification(r, email, dbErr) ==
    /\ req[r].pc = "ready"
    /\ req' = [req EXCEPT ![r] =
          IF ResendResponse(account, email, dbErr, TRUE).status # 200 THEN IdleReq
          ELSE [IdleReq EXCEPT !.pc = "resend",
                               !.ep = "POST /auth/verification/resend",
                               !.created = CHOOSE id \in GetAccountByEmail(account, email) : TRUE,
                               !.stamp = now]]
    /\ UNCHANGED <<account, now, issued, handed, incrCount, baseVersion, refreshOK,
                   mailed, subscribe, video, written, files, callbacks>>

\* HandleResendVerification, the SendEmail call of sendVerificationEmail (outcome
\* mailOK): the link built from the row read before the call is mailed, whatever has
\* become of the account since, and the request is answered
HandleResendMail(r, mailOK) ==
    /\ req[r].pc = "resend"
    /\ mailed' = IF mailOK
                 THEN mailed \cup {MailRec(VerificationToken(req[r].created, req[r].stamp),
                                           "resend")}
                 ELSE mailed
    /\ Done(r)
    /\ UNCHANGED <<account, now, issued, handed, incrCount, baseVersion, refreshOK,
                   subscribe, video, written, files, callbacks>>

(*************************** OAuth2 handlers *******************************)

\* the state parameter of a callback: a provider of the switch, or any other string
ProviderNames == Providers \cup {"gitlab"}

\* the code parameter of a callback: absent, or a code
Codes == {"", "c1"}

\* what HandleCallback answers before it calls the provider
CallbackResponse(providerName, code) ==
    IF providerName \notin Providers THEN WriteError(400, "Unknown provider")
    ELSE IF code = "" THEN WriteError(400, "Missing authorization code")
    ELSE NoResponse

\* HandleCallback up to the provider: GET /oauth2/callback?code=...&state=<provider>
HandleCallback(r, providerName, code) ==
    /\ req[r].pc = "ready"
    /\ req' = [req EXCEPT ![r] =
          IF CallbackResponse(providerName, code).status # 0 THEN IdleReq
          ELSE [IdleReq EXCEPT !.pc = "exchange", !.ep = "GET /oauth2/callback",
                               !.provider = providerName]]
    /\ UNCHANGED <<account, now, issued, handed, incrCount, baseVersion, refreshOK,
                   mailed, subscribe, video, written, files, callbacks>>

\* history record of a callback a failure of the provider has ended
CallbackRec(calls, wrote) == [calls |-> calls, wrote |-> wrote]

\* faulty variant: a failed exchange is tried again, twice at most
ExchangeTokenRetry(r, ok) ==
    /\ req[r].pc = "exchange"
    /\ IF ok
       THEN /\ req' = [req EXCEPT ![r].pc = "fetch",
                                  ![r].calls = Append(@, "ExchangeToken")]
            /\ UNCHANGED callbacks
       ELSE IF Len(req[r].calls) < 2
       THEN /\ req' = [req EXCEPT ![r].calls = Append(@, "ExchangeToken")]
            /\ UNCHANGED callbacks
       ELSE /\ callbacks' = callbacks \cup
                  {CallbackRec(Append(req[r].calls, "ExchangeToken"),
                               WriteError(500, "Failed to exchange token"))}
            /\ Done(r)
    /\ UNCHANGED <<account, now, issued, handed, incrCount, baseVersion, refreshOK,
                   mailed, subscribe, video, written, files>>

\* HandleCallback, the ExchangeToken call: one POST to the token endpoint of the
\* provider; ok when the answer arrives, has status 200 and decodes.  A failure is
\* answered 500 and ends the request.
ExchangeToken(r, ok) ==
    /\ req[r].pc = "exchange"
    /\ IF ok
       THEN /\ req' = [req EXCEPT ![r].pc = "fetch",
                                  ![r].calls = Append(@, "ExchangeToken")]
            /\ UNCHANGED callbacks
       ELSE /\ callbacks' = callbacks \cup
                  {CallbackRec(Append(req[r].calls, "ExchangeToken"),
                               WriteError(500, "Failed to exchange token"))}
            /\ Done(r)
    /\ UNCHANGED <<account, now, issued, handed, incrCount, baseVersion, refreshOK,
                   mailed, subscribe, video, written, files>>

\* HandleCallback, the FetchUser call: one GET to the user endpoint of the provider,
\* which answers with user; ok as for ExchangeToken.  A failure is answered 500 and
\* ends the request; otherwise handleOAuth is called with the user data.
FetchUser(r, user, ok) ==
    /\ req[r].pc = "fetch"
    /\ IF ok
       THEN /\ req' = [req EXCEPT ![r].pc = "oauth", ![r].userData = user,
                                  ![r].calls = Append(@, "FetchUser")]
            /\ UNCHANGED callbacks
       ELSE /\ callbacks' = callbacks \cup
                  {CallbackRec(Append(req[r].calls, "FetchUser"),
                               WriteError(500, "Failed to fetch user data"))}
            /\ Done(r)
    /\ UNCHANGED <<account, now, issued, handed, incrCount, baseVersion, refreshOK,
                   mailed, subscribe, video, written, files>>

\* what handleOAuth answers to the IsAccountRegistered query (dbErr is what the
\* database answers to it) before it logs in or registers
OAuthQueryResponse(dbErr) ==
    IF dbErr # "" THEN WriteError(500, "Internel server error") ELSE NoResponse

\* handleOAuth, the IsAccountRegistered query: the identity is logged in when a row
\* holds it and registered otherwise
handleOAuth(r, dbErr) ==
    /\ req[r].pc = "oauth"
    /\ req' = [req EXCEPT ![r] =
          IF OAuthQueryResponse(dbErr).status # 0 THEN IdleReq
          ELSE [req[r] EXCEPT
                  !.pc = IF IsAccountRegistered(account, req[r].provider, req[r].userData.ID)
                         THEN "oauth_login" ELSE "oauth_register"]]
    /\ UNCHANGED <<account, now, issued, handed, incrCount, baseVersion, refreshOK,
                   mailed, subscribe, video, written, files, callbacks>>

\* what handleOAuth answers to a registered identity whose row is acc[a]; a = 0 when
\* LoginWithOAuth returns an error (no row, or a failure of the database)
OAuthLoginResponse(acc, a, t) ==
    IF a = 0 THEN WriteError(500, "Internal server error")
    ELSE IF acc[a].status # "active" THEN WriteError(403, "Account is not active")
    ELSE LoginResponseFor(acc, a, t)

\* handleOAuth, the identity is registered: LoginWithOAuth and the login response;
\* dbErr is what the database answers to the query
handleOAuthLogin(r, dbErr) ==
    /\ req[r].pc = "oauth_login"
    /\ \E a \in (IF dbErr # "" \/ LoginWithOAuth(account, req[r].provider, req[r].userData.ID) = {}
                 THEN {0}
                 ELSE LoginWithOAuth(account, req[r].provider, req[r].userData.ID)) :
          Issue(LoginIssued(OAuthLoginResponse(account, a, now), account, "login"))
    /\ Done(r)
    /\ UNCHANGED <<account, now, incrCount, baseVersion, refreshOK,
                   mailed, subscribe, video, written, files, callbacks>>

\* what handleOAuth answers to a new identity; acc is the table after the INSERT, a
\* the new row, t the time of the two CreateToken calls
OAuthRegisterResponse(acc, a, t, violation, repoOK) ==
    IF violation # "" THEN CreateError(violation)
    ELSE IF LoginResponseFor(acc, a, t).status # 200 THEN LoginResponseFor(acc, a, t)
    ELSE IF ~repoOK THEN WriteError(500, "Internal server error")
    ELSE LoginResponseFor(acc, a, t)

\* handleOAuth, the identity is not registered, up to the tokens: the INSERT of
\* CreateAccountWithOAuth (dbErr is what the database answers to it) and the two
\* CreateToken calls with the token_version of the row the INSERT returns.  A request
\* whose INSERT or CreateToken fails is answered at once; the loginResponse is kept
\* for the response that follows CreateUserRepo and the avatar download.
handleOAuthRegister(r, dbErr) ==
    /\ req[r].pc = "oauth_register"
    /\ LET rq == req[r]
           violation == InsertErr(account, rq.userData.Email, rq.userData.Username, dbErr)
           a == FreshId(account)
       IN IF violation # ""
          THEN UNCHANGED <<account, baseVersion>> /\ Done(r)
          ELSE /\ \E id \in AccId : account[id] = NoRow
               /\ account' = CreateAccountWithOAuth(account, rq.userData.Email, rq.userData.Username,
                                                    rq.provider, rq.userData.ID)
               /\ baseVersion' = [baseVersion EXCEPT ![a] = 1]
               /\ req' = [req EXCEPT ![r] =
                     IF LoginResponseFor(account', a, now).status # 200 THEN IdleReq
                     ELSE [rq EXCEPT !.pc = "oauth_created", !.created = a,
                                     !.resp = LoginResponseFor(account', a, now)]]
    /\ UNCHANGED <<now, issued, handed, incrCount, refreshOK, mailed, subscribe, video, written, files,
                   callbacks>>

\* what handleOAuth writes after CreateUserRepo (outcome repoOK) and DownloadURL,
\* whose result is ignored: rsp is the loginResponse built after the INSERT
OAuthCreatedResponse(rsp, repoOK) ==
    IF ~repoOK THEN WriteError(500, "Internal server error") ELSE rsp

\* handleOAuth, the identity is not registered, the CreateUserRepo call up to the
\* avatar (outcome repo): the directories and avatar.png of the new account.  A
\* request whose CreateUserRepo fails is answered 500 and hands out no token;
\* otherwise CreateUserRepo goes on to the cover.
handleOAuthRegisterRepo(r, repo) ==
    /\ req[r].pc = "oauth_created"
    /\ files' = files \cup RepoWritten(req[r].created, "avatar.png", repo)
    /\ req' = [req EXCEPT ![r] =
          IF OAuthCreatedResponse(req[r].resp, repo = "ok").status # 200 THEN IdleReq
          ELSE [req[r] EXCEPT !.pc = "oauth_cover"]]
    /\ UNCHANGED <<account, now, issued, handed, incrCount, baseVersion, refreshOK,
                   mailed, subscribe, video, written, callbacks>>

\* handleOAuth, the identity is not registered, the rest of the CreateUserRepo call
\* (outcome repo): cover.png of the new account.  A request whose CreateUserRepo
\* fails is answered 500 and hands out no token; otherwise the avatar is downloaded.
handleOAuthRegisterRepoCover(r, repo) ==
    /\ req[r].pc = "oauth_cover"
    /\ files' = files \cup RepoWritten(req[r].created, "cover.png", repo)
    /\ req' = [req EXCEPT ![r] =
          IF OAuthCreatedResponse(req[r].resp, repo = "ok").status # 200 THEN IdleReq
          ELSE [req[r] EXCEPT !.pc = "oauth_download"]]
    /\ UNCHANGED <<account, now, issued, handed, incrCount, baseVersion, refreshOK,
                   mailed, subscribe, video, written, callbacks>>

\* what the provider's server and the storage do to DownloadURL: the avatar is
\* written, the GET fails, os.Create fails, or io.Copy fails after the file is created
DownloadOutcomes == {"ok", "get failed", "create failed", "copy failed"}

\* the file DownloadURL has written into when it returns
Downloaded(id, download) ==
    IF download \in {"get failed", "create failed"} THEN {} ELSE {<<id, "avatar.png">>}

\* handleOAuth, the identity is not registered, from the DownloadURL call (outcome
\* download) on: the avatar of the provider is written over avatar.png, the result
\* of the call is ignored, and the response hands out the tokens built after the
\* INSERT
handleOAuthRegisterRespond(r, download) ==
    /\ req[r].pc = "oauth_download"
    /\ files' = files \cup Downloaded(req[r].created, download)
    /\ Issue(HandedOut(OAuthCreatedResponse(req[r].resp, TRUE), account, "register"))
    /\ Done(r)
    /\ UNCHANGED <<account, now, incrCount, baseVersion, refreshOK,
                   mailed, subscribe, video, written, callbacks>>

(***************************** AuthMiddleware ******************************)

\* faulty variant: no token-type check
KindAllowedAny(tokenType, path) == TRUE

\* the token-type check of AuthMiddleware
KindAllowed(tokenType, path) ==
    \/ tokenType = "refresh-token" /\ path = RefreshPath
    \/ tokenType = "access-token" /\ path # RefreshPath

\* what AuthMiddleware answers; NoResponse when it calls next.ServeHTTP
MiddlewareResponse(acc, t, path, hasHeader, tok, dbErr) ==
    LET res == VerifyToken(tok, acc, t, dbErr)
    IN IF ~hasHeader THEN WriteError(401, "Missing request header")
       ELSE IF res.err = "token is expired" THEN WriteError(401, "Access token expired")
       ELSE IF res.err = "token is malformed"
            THEN WriteError(400, "Invalid access token: token is malformed")
       ELSE IF res.err # "" THEN WriteError(400, "Invalid access token: " \o res.err)
       ELSE IF KindAllowed(res.claims.TokenType, path) THEN NoResponse
       ELSE WriteError(400, "Invalid access token: unsuitable token type for this request")

\* AuthMiddleware in front of endpoint ep: hasHeader is "the Authorization header starts
\* with Bearer ", tok the token after the prefix, pathID the {id} of the path, dbErr
\* what the database answers to the GetTokenVersion query
AuthMiddleware(r, ep, hasHeader, tok, pathID, dbErr) ==
    /\ req[r].pc = "ready"
    /\ req' = [req EXCEPT ![r] =
          IF MiddlewareResponse(account, now, PathOf(ep), hasHeader, tok, dbErr).status # 0
          THEN IdleReq
          ELSE [IdleReq EXCEPT !.pc = "handler", !.ep = ep, !.path = PathOf(ep),
                               !.pathID = pathID, !.token = tok,
                               !.claims = VerifyToken(tok, account, now, dbErr).claims]]
    /\ UNCHANGED <<account, now, issued, handed, incrCount, baseVersion, refreshOK,
                   mailed, subscribe, video, written, files, callbacks>>

(************************** auth shared logic ******************************)

\* what HandleLogout and HandleRefreshToken answer to a failed IncrementTokenVersion;
\* NoResponse when the UPDATE has run
IncrementResponse(dbErr) ==
    IF dbErr = "" THEN NoResponse
    ELSE IF dbErr = ErrNoRows THEN WriteError(400, "Account does not exist")
    ELSE WriteError(500, "Internal server error")

\* what HandleLogout answers
LogoutResponse(dbErr) ==
    IF IncrementResponse(dbErr).status # 0 THEN IncrementResponse(dbErr)
    ELSE WriteJSON(200, "Logged out successfully")

\* HandleLogout: POST /auth/logout; dbErr is what the database answers to the UPDATE
HandleLogout(r, dbErr) ==
    /\ req[r].pc = "handler"
    /\ req[r].ep = "POST /auth/logout"
    /\ IF dbErr # ""
       THEN UNCHANGED <<account, incrCount>>
       ELSE /\ GetTokenVersion(account, req[r].claims.ID) < MaxVersion
            /\ account' = IncrementTokenVersion(account, req[r].claims.ID)
            /\ incrCount' = [incrCount EXCEPT ![req[r].claims.ID] = @ + 1]
    /\ Done(r)
    /\ UNCHANGED <<now, issued, handed, baseVersion, refreshOK, mailed, subscribe, video, written, files, callbacks>>

\* what HandleRefreshToken answers after the increment: the new access token
RefreshResponse(claims, t) ==
    LET newAccessToken == CreateToken(claims.ID, "access-token", claims.Version + 1,
                                      TokenExpirationTime, t)
    IN IF newAccessToken.err # "" THEN WriteError(500, "Internal server error")
       ELSE [NoResponse EXCEPT !.status = 200, !.access = newAccessToken.token]

\* HandleRefreshToken: POST /auth/token/refresh; dbErr is what the database answers
\* to the UPDATE
HandleRefreshToken(r, dbErr) ==
    /\ req[r].pc = "handler"
    /\ req[r].ep = "POST /auth/token/refresh"
    /\ IF dbErr # ""
       THEN UNCHANGED <<account, incrCount, issued, handed, refreshOK>>
       ELSE /\ GetTokenVersion(account, req[r].claims.ID) < MaxVersion
            /\ account' = IncrementTokenVersion(account, req[r].claims.ID)
            /\ incrCount' = [incrCount EXCEPT ![req[r].claims.ID] = @ + 1]
            /\ Issue(IF RefreshResponse(req[r].claims, now).status # 200 THEN {}
                     ELSE {IssueRec(RefreshResponse(req[r].claims, now).access, req[r].claims.ID,
                                    "access-token", req[r].claims.Version + 1, account', "refresh")})
            /\ refreshOK' = IF RefreshResponse(req[r].claims, now).status = 200
                            THEN Bump(refreshOK, req[r].token) ELSE refreshOK
    /\ Done(r)
    /\ UNCHANGED <<now, baseVersion, mailed, subscribe, video, written, files, callbacks>>

(**************************** account handlers *****************************)

\* faulty variant: the account ID of the request is not compared with the claims
checkIDMatchAny(claims, accountID) == TRUE

\* checkIDMatch: the ID of the claims against the account ID of the request
checkIDMatch(claims, accountID) == claims.ID = accountID

\* SELECT ... FROM account WHERE account_id = $1 (GetProfile): the error of the
\* query, "" when the row is found; dbErr is a failure of the database itself
GetProfileErr(acc, accountID, dbErr) ==
    IF dbErr # "" THEN dbErr
    ELSE IF ~Exists(acc, accountID) THEN ErrNoRows
    ELSE ""

\* checkAccountStatus, its result isActive: GetProfile finds the row and its status
\* is active
checkAccountStatus(acc, accountID, dbErr) ==
    GetProfileErr(acc, accountID, dbErr) = "" /\ acc[accountID].status = "active"

\* what checkIDMatch and, when it passes, checkAccountStatus write: 400 for another
\* account's ID, 500 when GetProfile fails, nothing otherwise (nothing either for an
\* account that is not active)
AccountCheckWrites(acc, claims, accountID, dbErr) ==
    IF ~checkIDMatch(claims, accountID)
    THEN <<WriteError(400, "Account ID not match with the ID from access token")>>
    ELSE IF GetProfileErr(acc, accountID, dbErr) # ""
    THEN <<WriteError(500, "Internal server error")>>
    ELSE <<>>

\* both checks let HandleEditProfile, HandleSubscribe and HandleUnsubscribe go on
AccountChecksPass(acc, claims, accountID, dbErr) ==
    checkIDMatch(claims, accountID) /\ checkAccountStatus(acc, accountID, dbErr)

\* HandleLockAccount returns before the LockAccount query: on another account's ID,
\* and when checkAccountStatus reports the account active.  A failed GetProfile is
\* "not active": the handler goes on after the 500 has been written.
LockReturns(acc, claims, pathID, dbErr) ==
    ~checkIDMatch(claims, pathID) \/ checkAccountStatus(acc, pathID, dbErr)

\* HandleLockAccount up to the LockAccount query: checkIDMatch and checkAccountStatus;
\* dbErr is what the database answers to GetProfile
HandleLockAccount(r, dbErr) ==
    /\ req[r].pc = "handler"
    /\ req[r].ep = "POST /accounts/{id}/lock"
    /\ req' = [req EXCEPT ![r] =
          IF LockReturns(account, req[r].claims, req[r].pathID, dbErr) THEN IdleReq
          ELSE [req[r] EXCEPT
                  !.pc = "lock",
                  !.wrote = AccountCheckWrites(account, req[r].claims, req[r].pathID, dbErr)]]
    /\ UNCHANGED <<account, now, issued, handed, incrCount, baseVersion, refreshOK,
                   mailed, subscribe, video, written, files, callbacks>>

\* the writes of HandleLockAccount once the LockAccount query has run: what was
\* written before it, then 201 or the 500 of a failed query
LockWrites(wrote, pathID, dbErr) ==
    wrote \o <<IF dbErr # "" THEN WriteError(500, "Internal server error")
               ELSE [WriteJSON(201, "Account locked successfully") EXCEPT !.id = pathID]>>

\* HandleLockAccount from the LockAccount query on; dbErr is what the database
\* answers to the UPDATE
HandleLockAccountLock(r, dbErr) ==
    /\ req[r].pc = "lock"
    /\ account' = IF dbErr # "" THEN account ELSE LockAccount(account, req[r].pathID)
    /\ Done(r)
    /\ UNCHANGED <<now, issued, handed, incrCount, baseVersion, refreshOK,
                   mailed, subscribe, video, written, files, callbacks>>

\* HandleEditProfile up to the form: checkIDMatch and checkAccountStatus, whose
\* GetProfile row is kept as oldProfile; dbErr is what the database answers to it
HandleEditProfile(r, dbErr) ==
    /\ req[r].pc = "handler"
    /\ req[r].ep = "PUT /accounts/{id}"
    /\ req' = [req EXCEPT ![r] =
          IF ~AccountChecksPass(account, req[r].claims, req[r].pathID, dbErr) THEN IdleReq
          ELSE [req[r] EXCEPT
                  !.pc = "edit",
                  !.oldProfile = [username |-> account[req[r].pathID].username,
                                  description |-> account[req[r].pathID].description]]]
    /\ UNCHANGED <<account, now, issued, handed, incrCount, baseVersion, refreshOK,
                   mailed, subscribe, video, written, files, callbacks>>

\* what the multipart form and the storage do to HandleEditProfile for one of the
\* two files: the file is there and is copied, FormFile does not find it,
\* os.OpenFile fails on the file of the storage, or io.Copy fails after the file is
\* opened
FormOutcomes == {"ok", "no file", "open failed", "copy failed"}

\* the form value, or the value of oldProfile when the form value is empty
\* (oldProfile.Description.String is "" for a NULL description)
FormValue(value, old) == IF value = "" /\ old # NULL THEN old ELSE value

\* what HandleEditProfile writes when the file of the form (avatar or cover) is
\* missing or is not copied
FormWrites(file, form) ==
    IF form = "no file" THEN <<WriteError(400, "Invalid " \o file \o " file")>>
    ELSE IF form \in {"open failed", "copy failed"}
    THEN <<WriteError(500, "Internal server error")>>
    ELSE <<>>

\* what HandleEditProfile writes from the form values on; username is the value
\* given to the EditProfile query, dbErr what the database answers to it
EditWrites(acc, pathID, username, dbErr) ==
    IF dbErr # "" \/ EditProfileErr(acc, pathID, username) # ""
    THEN <<WriteError(500, "Internal server error")>>
    ELSE <<[WriteJSON(201, "EditProfileRow") EXCEPT !.id = pathID]>>

\* the file of the storage HandleEditProfile has written into after the outcome
\* form: a copy that fails has written into the file it had opened
FilesCopied(pathID, file, form) ==
    IF form \in {"no file", "open failed"} THEN {} ELSE {<<pathID, file \o ".png">>}

\* HandleEditProfile, the avatar of the form: it is read from the request and copied
\* over the file of the storage.  A request whose form or copy fails is answered at
\* once; otherwise the handler goes on to the cover.
HandleEditProfileFiles(r, form) ==
    /\ req[r].pc = "edit"
    /\ files' = files \cup FilesCopied(req[r].pathID, "avatar", form)
    /\ req' = [req EXCEPT ![r] =
          IF FormWrites("avatar", form) # <<>> THEN IdleReq
          ELSE [req[r] EXCEPT !.pc = "edit_cover"]]
    /\ UNCHANGED <<account, now, issued, handed, incrCount, baseVersion, refreshOK,
                   mailed, subscribe, video, written, callbacks>>

\* HandleEditProfile, the cover of the form: it is read from the request and copied
\* over the file of the storage.  A request whose form or copy fails is answered at
\* once, with the avatar copied before left in the storage.
HandleEditProfileCover(r, form) ==
    /\ req[r].pc = "edit_cover"
    /\ files' = files \cup FilesCopied(req[r].pathID, "cover", form)
    /\ req' = [req EXCEPT ![r] =
          IF FormWrites("cover", form) # <<>> THEN IdleReq
          ELSE [req[r] EXCEPT !.pc = "edit_update"]]
    /\ UNCHANGED <<account, now, issued, handed, incrCount, baseVersion, refreshOK,
                   mailed, subscribe, video, written, callbacks>>

\* HandleEditProfile from the form values on: the EditProfile query, once both files
\* are copied
HandleEditProfileUpdate(r, username, description, dbErr) ==
    /\ req[r].pc = "edit_update"
    /\ account' =
          IF EditWrites(account, req[r].pathID,
                        FormValue(username, req[r].oldProfile.username), dbErr)[1].status # 201
          THEN account
          ELSE EditProfile(account, req[r].pathID,
                           FormValue(username, req[r].oldProfile.username),
                           FormValue(description, req[r].oldProfile.description))
    /\ Done(r)
    /\ UNCHANGED <<now, issued, handed, incrCount, baseVersion, refreshOK,
                   mailed, subscribe, video, written, files, callbacks>>

\* what HandleSubscribe and HandleUnsubscribe write before their query; 0 stands for
\* a field that is missing or the zero UUID
SubscribeCheckWrites(acc, claims, subscriberID, subscribeToID, dbErr) ==
    IF subscriberID = 0 \/ subscribeToID = 0 THEN <<WriteError(400, "Invalid request body")>>
    ELSE AccountCheckWrites(acc, claims, subscriberID, dbErr)

\* HandleSubscribe and HandleUnsubscribe go on to their query
SubscribeGoesOn(acc, claims, subscriberID, subscribeToID, dbErr) ==
    /\ subscriberID # 0 /\ subscribeToID # 0
    /\ AccountChecksPass(acc, claims, subscriberID, dbErr)

\* HandleSubscribe up to the Subscribe query: the body, checkIDMatch and
\* checkAccountStatus; dbErr is what the database answers to GetProfile
HandleSubscribe(r, subscriberID, subscribeToID, dbErr) ==
    /\ req[r].pc = "handler"
    /\ req[r].ep = "POST /subscribe"
    /\ req' = [req EXCEPT ![r] =
          IF ~SubscribeGoesOn(account, req[r].claims, subscriberID, subscribeToID, dbErr)
          THEN IdleReq
          ELSE [req[r] EXCEPT !.pc = "subscribe",
                              !.body = [subscriber_id |-> subscriberID,
                                        subscribe_to_id |-> subscribeToID]]]
    /\ UNCHANGED <<account, now, issued, handed, incrCount, baseVersion, refreshOK,
                   mailed, subscribe, video, written, files, callbacks>>

\* what HandleSubscribe writes after the Subscribe query
SubscribeWrites(sub, acc, subscriberID, subscribeToID, dbErr) ==
    IF dbErr # "" \/ SubscribeErr(sub, acc, subscriberID, subscribeToID) # ""
    THEN <<WriteError(500, "Internal server error")>>
    ELSE <<[WriteJSON(201, "Subscribe") EXCEPT !.id = subscriberID]>>

\* HandleSubscribe from the Subscribe query on; dbErr is what the database answers
\* to the INSERT
HandleSubscribeInsert(r, dbErr) ==
    /\ req[r].pc = "subscribe"
    /\ subscribe' =
          IF dbErr # "" THEN subscribe
          ELSE Subscribe(subscribe, account, req[r].body.subscriber_id,
                         req[r].body.subscribe_to_id)
    /\ Done(r)
    /\ UNCHANGED <<account, now, issued, handed, incrCount, baseVersion, refreshOK,
                   mailed, video, written, files, callbacks>>

\* HandleUnsubscribe up to the Unsubscribe query
HandleUnsubscribe(r, subscriberID, subscribeToID, dbErr) ==
    /\ req[r].pc = "handler"
    /\ req[r].ep = "DELETE /subscribe"
    /\ req' = [req EXCEPT ![r] =
          IF ~SubscribeGoesOn(account, req[r].claims, subscriberID, subscribeToID, dbErr)
          THEN IdleReq
          ELSE [req[r] EXCEPT !.pc = "unsubscribe",
                              !.body = [subscriber_id |-> subscriberID,
                                        subscribe_to_id |-> subscribeToID]]]
    /\ UNCHANGED <<account, now, issued, handed, incrCount, baseVersion, refreshOK,
                   mailed, subscribe, video, written, files, callbacks>>

\* what HandleUnsubscribe writes after the Unsubscribe query
UnsubscribeWrites(dbErr) ==
    IF dbErr # "" THEN <<WriteError(500, "Internal server error")>>
    ELSE <<WriteJSON(200, "Unsubscription successfully")>>

\* HandleUnsubscribe from the Unsubscribe query on; dbErr is what the database
\* answers to the DELETE
HandleUnsubscribeDelete(r, dbErr) ==
    /\ req[r].pc = "unsubscribe"
    /\ subscribe' =
          IF dbErr # "" THEN subscribe
          ELSE Unsubscribe(subscribe, req[r].body.subscriber_id, req[r].body.subscribe_to_id)
    /\ Done(r)
    /\ UNCHANGED <<account, now, issued, handed, incrCount, baseVersion, refreshOK,
                   mailed, video, written, files, callbacks>>

(***************************** video handlers ******************************)

\* the values of ?resolution= HandleGetVideo serves
Resolutions == {"", "1080p", "720p", "480p"}

\* server.WriteJSON(w, http.StatusOK, data) with the getVideoResponse of video id
WriteVideo(id) == [WriteJSON(200, "getVideoResponse") EXCEPT !.id = id]

\* the status switch of HandleGetVideo: the calls of WriteError it makes; no case
\* returns
StatusWrites(status) ==
    IF status = "deleted" THEN <<WriteError(403, "Video is deleted")>>
    ELSE IF status = "pending" THEN <<WriteError(400, "Video is not available for now")>>
    ELSE <<>>

\* the calls of WriteError and WriteJSON one run of HandleGetVideo makes, in order;
\* id = 0 stands for a path value that is no UUID
GetVideoWrites(vid, id, resolution, dbErr) ==
    IF id = 0 THEN <<WriteError(400, "Invalid video ID")>>
    ELSE IF GetVideoErr(vid, id, dbErr) = ErrNoRows
    THEN <<WriteError(404, "Cannot found any video with this ID")>>
    ELSE IF GetVideoErr(vid, id, dbErr) # "" THEN <<WriteError(500, "Internal server error")>>
    ELSE StatusWrites(vid[id].status)
            \o (IF resolution \notin Resolutions
                THEN <<WriteError(400, "Unsupport resolution")>>
                ELSE <<WriteVideo(id)>>)

\* HandleGetVideo: GET /videos/{id}?resolution=...
HandleGetVideo(id, resolution, dbErr) ==
    /\ Cardinality(written \cup {[id |-> id, resolution |-> resolution,
                                  videoStatus |-> IF GetVideoErr(video, id, dbErr) = ""
                                                  THEN video[id].status ELSE "",
                                  writes |-> GetVideoWrites(video, id, resolution, dbErr)]})
          <= MaxServed
    /\ written' = written \cup {[id |-> id, resolution |-> resolution,
                                 videoStatus |-> IF GetVideoErr(video, id, dbErr) = ""
                                                 THEN video[id].status ELSE "",
                                 writes |-> GetVideoWrites(video, id, resolution, dbErr)]}
    /\ UNCHANGED <<account, now, req, issued, handed, incrCount, baseVersion, refreshOK,
                   mailed, subscribe, video, files, callbacks>>

(******************************* the clock *********************************)

Tick ==
    /\ now < MaxTicks * TickStep
    /\ now' = now + TickStep
    /\ UNCHANGED <<account, req, issued, handed, incrCount, baseVersion, refreshOK,
                   mailed, subscribe, video, written, files, callbacks>>

(**************************** specification ********************************)

\* the tokens a client can present: the ones some response handed out
Held == {i.token : i \in issued}

\* what a client without the server key can make of a token it holds: another
\* signature, the header alg "none" with an empty signature, an edited version claim
Forge(tok) ==
    {[tok EXCEPT !.sig = "forged"],
     [tok EXCEPT !.alg = "none", !.sig = ""],
     [tok EXCEPT !.version = @ + 1, !.sig = "forged"]}

\* the bearer strings of the requests: tokens held, forgeries of them, and a string
\* that is no token
PresentedOf(held) == held \cup {NoToken} \cup UNION {Forge(tok) : tok \in held}

Presented == PresentedOf(Held)

\* The session core alone: password login, the authenticated endpoints and the clock,
\* on the accounts the table holds at start.
NextSession ==
    \/ \E u \in Usernames, p \in Passwords, dbErr \in DbErrors : HandleLogin(u, p, dbErr)
    \/ \E r \in Req, ep \in AuthEndpoints, tok \in Presented, dbErr \in DbErrors :
          \E id \in (IF ep = "POST /accounts/{id}/lock" THEN AccId ELSE {0}) :
             AuthMiddleware(r, ep, TRUE, tok, id, dbErr)
    \/ \E r \in Req, ep \in AuthEndpoints : AuthMiddleware(r, ep, FALSE, NoToken, 0, "")
    \/ \E r \in Req, dbErr \in DbErrors : HandleLogout(r, dbErr)
    \/ \E r \in Req, dbErr \in DbErrors : HandleRefreshToken(r, dbErr)
    \/ \E r \in Req, dbErr \in DbErrors : HandleLockAccount(r, dbErr)
    \/ \E r \in Req, dbErr \in DbErrors : HandleLockAccountLock(r, dbErr)
    \/ Tick

SpecSession == Init /\ [][NextSession]_vars

InitAny == Init \/ InitFresh

\* Federation alone: the OAuth callbacks of two concurrent requests, with profiles
\* that can change at the provider, on a new deployment or on the table of Init.  The
\* state parameter names GitHub or no provider of the switch.
NextOAuth ==
    \/ \E r \in Req, pr \in {"github", "gitlab"}, code \in Codes : HandleCallback(r, pr, code)
    \/ \E r \in Req, ok \in BOOLEAN : ExchangeToken(r, ok)
    \/ \E r \in Req, ud \in OAuthProfiles, ok \in BOOLEAN : FetchUser(r, ud, ok)
    \/ \E r \in Req, dbErr \in DbErrors : handleOAuth(r, dbErr)
    \/ \E r \in Req, dbErr \in DbErrors : handleOAuthLogin(r, dbErr)
    \/ \E r \in Req, dbErr \in DbErrors : handleOAuthRegister(r, dbErr)
    \/ \E r \in Req, repo \in RepoOutcomes : handleOAuthRegisterRepo(r, repo)
    \/ \E r \in Req, repo \in RepoOutcomes \ {"mkdir failed"} : handleOAuthRegisterRepoCover(r, repo)
    \/ \E r \in Req, download \in DownloadOutcomes : handleOAuthRegisterRespond(r, download)

SpecOAuth == InitAny /\ [][NextOAuth]_vars

\* The logins alone: the password login and the OAuth callbacks of both providers,
\* served one at a time (slot 1), with the clock, on a new deployment or on the table
\* of Init.
NextLogin ==
    \/ \E u \in Usernames, p \in Passwords, dbErr \in DbErrors : HandleLogin(u, p, dbErr)
    \/ \E pr \in ProviderNames, code \in Codes : HandleCallback(1, pr, code)
    \/ \E ok \in BOOLEAN : ExchangeToken(1, ok)
    \/ \E ud \in OAuthProfiles, ok \in BOOLEAN : FetchUser(1, ud, ok)
    \/ \E dbErr \in DbErrors : handleOAuth(1, dbErr)
    \/ \E dbErr \in DbErrors : handleOAuthLogin(1, dbErr)
    \/ \E dbErr \in DbErrors : handleOAuthRegister(1, dbErr)
    \/ \E repo \in RepoOutcomes : handleOAuthRegisterRepo(1, repo)
    \/ \E repo \in RepoOutcomes \ {"mkdir failed"} : handleOAuthRegisterRepoCover(1, repo)
    \/ \E download \in DownloadOutcomes : handleOAuthRegisterRespond(1, download)
    \/ Tick

SpecLogin == InitAny /\ [][NextLogin]_vars

\* the ages of the links a verification request presents: new, 24 hours old, and
\* older
LinkAges == {0, VerificationLinkTTL, VerificationLinkTTL + 1}

\* Registration by password and the verification links alone: register, resend,
\* verify and login, on a new deployment or on the table of Init.  The requests that
\* hold a slot are served one at a time (slot 1), next to the logins and the
\* verifications; a verification presents a link of one of the three ages, or a
\* link that was mailed.
NextVerification ==
    \/ \E u \in Usernames, p \in Passwords, dbErr \in DbErrors : HandleLogin(u, p, dbErr)
    \/ \E e \in Emails, u \in Usernames, dbErr \in DbErrors :
          HandleRegister(1, e, u, "pw", "s2", dbErr)
    \/ \E repo \in RepoOutcomes : HandleRegisterRepo(1, repo)
    \/ \E repo \in RepoOutcomes \ {"mkdir failed"} : HandleRegisterRepoCover(1, repo)
    \/ \E mailOK \in BOOLEAN : HandleRegisterMail(1, mailOK)
    \/ \E e \in Emails, dbErr \in DbErrors : HandleResendVerification(1, e, dbErr)
    \/ \E mailOK \in BOOLEAN : HandleResendMail(1, mailOK)
    \/ \E id \in 1..(MaxAccounts + 1), age \in LinkAges, dbErr \in DbErrors :
          HandleVerify(id, now - age, dbErr)
    \/ \E m \in mailed, dbErr \in DbErrors : HandleVerify(m.id, m.timestamp, dbErr)
    \/ Tick

SpecVerification == InitAny /\ [][NextVerification]_vars

\* A table of two accounts: account 1 of any status, account 2 active, both logged
\* in earlier (account 1 while it was active).
PairRow ==
    [SeedRow("active", TRUE) EXCEPT !.email = "e2", !.username = "u2"]

PairIssued(acc) ==
    {IssueRec(CreateToken(2, "access-token", 1, TokenExpirationTime, 0).token,
              2, "access-token", 1, acc, "login"),
     IssueRec(CreateToken(2, "refresh-token", 1, RefreshTokenExpirationTime, 0).token,
              2, "refresh-token", 1, acc, "login")}

InitPair ==
    /\ \E status \in Statuses :
          /\ account = [id \in AccId |-> IF id = 1 THEN SeedRow(status, TRUE) ELSE PairRow]
          /\ issued = (IF status = "inactive" THEN {} ELSE SeedIssued(account))
                         \cup PairIssued(account)
    /\ now = 0
    /\ handed = 0
    /\ req = [r \in Req |-> IdleReq]
    /\ incrCount = [id \in AccId |-> 0]
    /\ baseVersion = [id \in AccId |-> 1]
    /\ refreshOK = [x \in {} |-> 0]
    /\ mailed = {}
    /\ subscribe = {}
    /\ video = [v \in VideoId |-> NoVideo]
    /\ written = {}
    /\ files = {}
    /\ callbacks = {}

\* the account routes behind AuthMiddleware
AccountEndpoints ==
    {"PUT /accounts/{id}", "POST /accounts/{id}/lock", "POST /subscribe", "DELETE /subscribe"}

\* the form values and body fields the clients send, and what the database answers
\* to the queries of the account handlers
EditUsernames == {"", "u3"}
EditDescriptions == {"", "d1"}
BodyIds == 0..MaxAccounts
SubscribeToIds == {0, 1}
AccountDbErrors == {"", "connection refused"}

\* The account routes alone, on the table of InitPair, for two concurrent requests
\* that present the tokens handed out; the profile edit sends the description d1.
NextAccount ==
    \/ \E r \in Req, ep \in AccountEndpoints, tok \in Held :
          \E id \in (IF ep \in {"PUT /accounts/{id}", "POST /accounts/{id}/lock"}
                     THEN AccId ELSE {0}) :
             AuthMiddleware(r, ep, TRUE, tok, id, "")
    \/ \E r \in Req, dbErr \in AccountDbErrors : HandleEditProfile(r, dbErr)
    \/ \E r \in Req, form \in FormOutcomes : HandleEditProfileFiles(r, form)
    \/ \E r \in Req, form \in FormOutcomes : HandleEditProfileCover(r, form)
    \/ \E r \in Req, u \in EditUsernames, dbErr \in AccountDbErrors :
          HandleEditProfileUpdate(r, u, "d1", dbErr)
    \/ \E r \in Req, dbErr \in AccountDbErrors : HandleLockAccount(r, dbErr)
    \/ \E r \in Req, dbErr \in AccountDbErrors : HandleLockAccountLock(r, dbErr)
    \/ \E r \in Req, s \in BodyIds, t \in SubscribeToIds, dbErr \in AccountDbErrors :
          HandleSubscribe(r, s, t, dbErr)
    \/ \E r \in Req, dbErr \in AccountDbErrors : HandleSubscribeInsert(r, dbErr)
    \/ \E r \in Req, s \in BodyIds, t \in SubscribeToIds, dbErr \in AccountDbErrors :
          HandleUnsubscribe(r, s, t, dbErr)
    \/ \E r \in Req, dbErr \in AccountDbErrors : HandleUnsubscribeDelete(r, dbErr)

SpecAccount == InitPair /\ [][NextAccount]_vars

\* Every operation that writes the account table, on the table of Init: the two
\* registrations, verification, the logins, logout, refresh, lock and the profile
\* edit.  The requests that hold a slot are served one at a time (slot 1), next to
\* the logins and verifications; the clock stands still, the bearer tokens are the
\* ones handed out, the state parameter names GitHub or no provider of the switch,
\* the provider's users keep their profile, and the profile edit sends the username
\* u3 and the description d1.
NextTable ==
    \/ \E u \in Usernames, p \in Passwords, dbErr \in AccountDbErrors : HandleLogin(u, p, dbErr)
    \/ \E e \in Emails, u \in Usernames, dbErr \in AccountDbErrors :
          HandleRegister(1, e, u, "pw", "s2", dbErr)
    \/ \E repo \in RepoOutcomes : HandleRegisterRepo(1, repo)
    \/ \E repo \in RepoOutcomes \ {"mkdir failed"} : HandleRegisterRepoCover(1, repo)
    \/ \E mailOK \in BOOLEAN : HandleRegisterMail(1, mailOK)
    \/ \E id \in 1..(MaxAccounts + 1), age \in LinkAges, dbErr \in AccountDbErrors :
          HandleVerify(id, now - age, dbErr)
    \/ \E pr \in {"github", "gitlab"}, code \in Codes : HandleCallback(1, pr, code)
    \/ \E ok \in BOOLEAN : ExchangeToken(1, ok)
    \/ \E ud \in OAuthUsers, ok \in BOOLEAN : FetchUser(1, ud, ok)
    \/ \E dbErr \in AccountDbErrors : handleOAuth(1, dbErr)
    \/ \E dbErr \in AccountDbErrors : handleOAuthLogin(1, dbErr)
    \/ \E dbErr \in AccountDbErrors : handleOAuthRegister(1, dbErr)
    \/ \E repo \in RepoOutcomes : handleOAuthRegisterRepo(1, repo)
    \/ \E repo \in RepoOutcomes \ {"mkdir failed"} : handleOAuthRegisterRepoCover(1, repo)
    \/ \E download \in DownloadOutcomes : handleOAuthRegisterRespond(1, download)
    \/ \E ep \in AuthEndpoints \cup {"PUT /accounts/{id}"}, tok \in Held :
          \E id \in (IF ep \in {"PUT /accounts/{id}", "POST /accounts/{id}/lock"}
                     THEN AccId ELSE {0}) :
             AuthMiddleware(1, ep, TRUE, tok, id, "")
    \/ \E dbErr \in AccountDbErrors : HandleLogout(1, dbErr)
    \/ \E dbErr \in AccountDbErrors : HandleRefreshToken(1, dbErr)
    \/ \E dbErr \in AccountDbErrors : HandleLockAccount(1, dbErr)
    \/ \E dbErr \in AccountDbErrors : HandleLockAccountLock(1, dbErr)
    \/ \E dbErr \in AccountDbErrors : HandleEditProfile(1, dbErr)
    \/ \E form \in FormOutcomes : HandleEditProfileFiles(1, form)
    \/ \E form \in FormOutcomes : HandleEditProfileCover(1, form)
    \/ \E dbErr \in AccountDbErrors : HandleEditProfileUpdate(1, "u3", "d1", dbErr)

SpecTable == Init /\ [][NextTable]_vars

\* Sessions of two accounts: login, logout and refresh with the tokens handed out,
\* and the clock, on the table of InitPair.
NextPair ==
    \/ \E u \in Usernames, p \in Passwords, dbErr \in DbErrors : HandleLogin(u, p, dbErr)
    \/ \E r \in Req, ep \in {"POST /auth/token/refresh", "POST /auth/logout"}, tok \in Held,
          dbErr \in DbErrors : AuthMiddleware(r, ep, TRUE, tok, 0, dbErr)
    \/ \E r \in Req, dbErr \in DbErrors : HandleLogout(r, dbErr)
    \/ \E r \in Req, dbErr \in DbErrors : HandleRefreshToken(r, dbErr)
    \/ Tick

SpecPair == InitPair /\ [][NextPair]_vars

\* The video route alone, on a video table whose rows, if any, are published by the
\* account of Init and have any status.
InitVideo ==
    /\ account = SeedTable("active", TRUE)
    /\ issued = SeedIssued(account)
    /\ now = 0
    /\ handed = 0
    /\ req = [r \in Req |-> IdleReq]
    /\ incrCount = [id \in AccId |-> 0]
    /\ baseVersion = [id \in AccId |-> IF id = 1 THEN 1 ELSE 0]
    /\ refreshOK = [x \in {} |-> 0]
    /\ mailed = {}
    /\ subscribe = {}
    /\ video \in [VideoId -> {NoVideo} \cup {[status |-> st, publisher_id |-> 1] :
                                               st \in VideoStatuses}]
    /\ written = {}
    /\ files = {}
    /\ callbacks = {}

\* the {id} and the resolution parameter the clients send
VideoPathIds == 0..MaxVideos
ResolutionParams == {"", "720p", "4k"}

NextVideo ==
    \E id \in VideoPathIds, resolution \in ResolutionParams, dbErr \in {"", "connection refused"} :
       HandleGetVideo(id, resolution, dbErr)

SpecVideo == InitVideo /\ [][NextVideo]_vars

\* Every route whose handler is modelled, with every input of the partial
\* specifications above.
HandlerEndpoints == AuthEndpoints \cup AccountEndpoints

Next ==
    \/ \E u \in Usernames, p \in Passwords, dbErr \in DbErrors : HandleLogin(u, p, dbErr)
    \/ \E r \in Req, e \in Emails, u \in Usernames, p \in Passwords, salt \in Salts,
          dbErr \in DbErrors : HandleRegister(r, e, u, p, salt, dbErr)
    \/ \E r \in Req, repo \in RepoOutcomes : HandleRegisterRepo(r, repo)
    \/ \E r \in Req, repo \in RepoOutcomes \ {"mkdir failed"} : HandleRegisterRepoCover(r, repo)
    \/ \E r \in Req, mailOK \in BOOLEAN : HandleRegisterMail(r, mailOK)
    \/ \E id \in 1..(MaxAccounts + 1), age \in LinkAges, dbErr \in DbErrors :
          HandleVerify(id, now - age, dbErr)
    \/ \E r \in Req, e \in Emails, dbErr \in DbErrors : HandleResendVerification(r, e, dbErr)
    \/ \E r \in Req, mailOK \in BOOLEAN : HandleResendMail(r, mailOK)
    \/ \E r \in Req, pr \in ProviderNames, code \in Codes : HandleCallback(r, pr, code)
    \/ \E r \in Req, ok \in BOOLEAN : ExchangeToken(r, ok)
    \/ \E r \in Req, ud \in OAuthProfiles, ok \in BOOLEAN : FetchUser(r, ud, ok)
    \/ \E r \in Req, dbErr \in DbErrors : handleOAuth(r, dbErr)
    \/ \E r \in Req, dbErr \in DbErrors : handleOAuthLogin(r, dbErr)
    \/ \E r \in Req, dbErr \in DbErrors : handleOAuthRegister(r, dbErr)
    \/ \E r \in Req, repo \in RepoOutcomes : handleOAuthRegisterRepo(r, repo)
    \/ \E r \in Req, repo \in RepoOutcomes \ {"mkdir failed"} : handleOAuthRegisterRepoCover(r, repo)
    \/ \E r \in Req, download \in DownloadOutcomes : handleOAuthRegisterRespond(r, download)
    \/ \E r \in Req, ep \in HandlerEndpoints, tok \in Presented, dbErr \in DbErrors :
          \E id \in (IF ep \in {"PUT /accounts/{id}", "POST /accounts/{id}/lock"}
                     THEN AccId ELSE {0}) :
             AuthMiddleware(r, ep, TRUE, tok, id, dbErr)
    \/ \E r \in Req, ep \in HandlerEndpoints : AuthMiddleware(r, ep, FALSE, NoToken, 0, "")
    \/ \E r \in Req, dbErr \in DbErrors : HandleLogout(r, dbErr)
    \/ \E r \in Req, dbErr \in DbErrors : HandleRefreshToken(r, dbErr)
    \/ \E r \in Req, dbErr \in DbErrors : HandleLockAccount(r, dbErr)
    \/ \E r \in Req, dbErr \in DbErrors : HandleLockAccountLock(r, dbErr)
    \/ \E r \in Req, dbErr \in DbErrors : HandleEditProfile(r, dbErr)
    \/ \E r \in Req, form \in FormOutcomes : HandleEditProfileFiles(r, form)
    \/ \E r \in Req, form \in FormOutcomes : HandleEditProfileCover(r, form)
    \/ \E r \in Req, u \in EditUsernames, d \in EditDescriptions, dbErr \in DbErrors :
          HandleEditProfileUpdate(r, u, d, dbErr)
    \/ \E r \in Req, s \in BodyIds, t \in BodyIds, dbErr \in DbErrors :
          HandleSubscribe(r, s, t, dbErr)
    \/ \E r \in Req, dbErr \in DbErrors : HandleSubscribeInsert(r, dbErr)
    \/ \E r \in Req, s \in BodyIds, t \in BodyIds, dbErr \in DbErrors :
          HandleUnsubscribe(r, s, t, dbErr)
    \/ \E r \in Req, dbErr \in DbErrors : HandleUnsubscribeDelete(r, dbErr)
    \/ \E id \in VideoPathIds, resolution \in ResolutionParams, dbErr \in DbErrors :
          HandleGetVideo(id, resolution, dbErr)
    \/ Tick

Spec == InitAny /\ [][Next]_vars

TypeOK ==
    /\ \A id \in AccId : account[id] = NoRow \/ account[id].status \in Statuses
    /\ now \in 0..(MaxTicks * TickStep)
    /\ \A r \in Req : req[r].pc \in {"ready", "handler", "register", "register_cover",
                                     "register_mail", "resend", "oauth_login",
                                     "exchange", "fetch", "oauth", "oauth_register",
                                     "oauth_created", "oauth_cover", "oauth_download",
                                     "lock", "edit", "edit_cover", "edit_update",
                                     "subscribe", "unsubscribe"}
    /\ \A r \in Req : req[r].created \in AccId \cup {0}

(******************************* claims ************************************)

Stored(id) == GetTokenVersion(account, id)

IsRefreshEndpoint(ep) == ep = "POST /auth/token/refresh"

\* C1: once the token_version of an account has been incremented, every token handed
\* out for it before the increment fails verification (and is answered 400 or 401 on
\* every authenticated endpoint); a token verifies only while its version equals the
\* stored one.
C1_StaleTokensRejected ==
    \A i \in issued :
       /\ Stored(i.accID) > i.stored =>
             /\ VerifyToken(i.token, account, now, "").err # ""
             /\ \A ep \in AuthEndpoints :
                   MiddlewareResponse(account, now, PathOf(ep), TRUE, i.token, "").status \in {400, 401}
       /\ VerifyToken(i.token, account, now, "").err = "" => i.token.version = Stored(i.accID)

C1_Witness ==
    \E i \in issued :
       /\ Stored(i.accID) > i.stored
       /\ i.token.version = i.stored
       /\ VerifyToken(i.token, account, now, "").err = "token version is not valid"

\* C2: a token issued with the stored version of its account verifies, as long as no
\* increment intervened and it has not expired, and the claims returned carry the
\* subject and the version given at issue.
C2_IssueThenVerify ==
    \A i \in issued :
       (i.version = i.stored /\ Stored(i.accID) = i.stored /\ now < i.token.exp) =>
          /\ VerifyToken(i.token, account, now, "").err = ""
          /\ VerifyToken(i.token, account, now, "").claims.ID = i.accID
          /\ VerifyToken(i.token, account, now, "").claims.Version = i.version
          /\ VerifyToken(i.token, account, now, "").claims.TokenType = i.tokenType

C2_Witness ==
    \E i \in issued :
       /\ i.version = 2 /\ i.stored = 2 /\ Stored(i.accID) = 2
       /\ now > 0 /\ now < i.token.exp
       /\ VerifyToken(i.token, account, now, "").claims.Version = 2

\* C3: AuthMiddleware lets a verified refresh token through on POST /auth/token/refresh
\* only and answers 400 on every other authenticated endpoint; it lets a verified
\* access token through on the other endpoints and answers 400 on the refresh
\* endpoint; no handler runs for a request whose token is of the wrong kind.
C3_TokenKindPolicy ==
    /\ \A i \in issued, ep \in AuthEndpoints :
          VerifyToken(i.token, account, now, "").err = "" =>
             IF (i.token.token_type = "refresh-token") <=> IsRefreshEndpoint(ep)
             THEN MiddlewareResponse(account, now, PathOf(ep), TRUE, i.token, "") = NoResponse
             ELSE MiddlewareResponse(account, now, PathOf(ep), TRUE, i.token, "").status = 400
    /\ \A r \in Req :
          req[r].pc \in {"handler", "lock"} =>
             ((req[r].token.token_type = "refresh-token") <=> IsRefreshEndpoint(req[r].ep))

C3_Witness ==
    /\ \E r \in Req : req[r].pc = "handler" /\ req[r].ep = "POST /auth/logout"
                      /\ req[r].token.token_type = "access-token"
    /\ \E r \in Req : req[r].pc = "handler" /\ IsRefreshEndpoint(req[r].ep)
                      /\ req[r].token.token_type = "refresh-token"
    /\ \E i \in issued :
          /\ i.token.token_type = "refresh-token"
          /\ VerifyToken(i.token, account, now, "").err = ""
          /\ MiddlewareResponse(account, now, "/auth/logout", TRUE, i.token, "").status = 400

\* C4: a logout raises the token_version of the subject of its token by exactly one,
\* and right after it every token handed out for that account so far, the one used
\* for the logout included, fails verification.
C4_LogoutInvalidatesAll ==
    [][\A r \in Req :
          HandleLogout(r, "") =>
             /\ GetTokenVersion(account', req[r].claims.ID) = Stored(req[r].claims.ID) + 1
             /\ req[r].token \in Held
             /\ \A i \in issued :
                   i.accID = req[r].claims.ID => VerifyToken(i.token, account', now', "").err # ""]_vars

\* one logout and no refresh has completed, on an account with two sessions
C4_Witness ==
    /\ incrCount[1] = 1
    /\ DOMAIN refreshOK = {}
    /\ Cardinality({i \in issued : i.accID = 1}) = 4
    /\ \A i \in issued : VerifyToken(i.token, account, now, "").err # ""
    /\ Cardinality({i \in issued :
                       VerifyToken(i.token, account, now, "").err = "token version is not valid"}) >= 3

\* C5: one refresh token leads to at most one 200 response of HandleRefreshToken.
C5_RefreshSingleUse ==
    \A t \in DOMAIN refreshOK : refreshOK[t] <= 1

\* C6: the access token of a refresh response embeds the stored token_version as it
\* stands right after the increment of that request.
C6_RefreshedTokenCurrent ==
    \A i \in issued : i.by = "refresh" => i.token.version = i.stored

\* C7: the token_version of an account is its first version plus the number of
\* IncrementTokenVersion calls completed on it (no increment is lost).
C7_NoLostIncrement ==
    \A id \in AccId :
       Exists(account, id) => account[id].token_version = baseVersion[id] + incrCount[id]

\* two refreshes with the same token, hence concurrent, have both incremented
C7_Witness ==
    /\ incrCount[1] = 2
    /\ account[1].token_version = 3
    /\ \E t \in DOMAIN refreshOK : refreshOK[t] = 2

\* C8: password login and OAuth login of a registered identity answer 403 "Account is
\* not active", with no token, whenever the account is inactive, banned or locked.
C8_LoginOnlyActive ==
    /\ \A u \in Usernames, p \in Passwords :
          \A a \in GetAccountByUsername(account, u) :
             account[a].status # "active" =>
                LoginResponse(account, now, u, p, "") = WriteError(403, "Account is not active")
    /\ \A pr \in Providers, ud \in OAuthUsers :
          \A a \in LoginWithOAuth(account, pr, ud.ID) :
             account[a].status # "active" =>
                OAuthLoginResponse(account, a, now) = WriteError(403, "Account is not active")
    /\ WriteError(403, "Account is not active").access = NoToken
    /\ WriteError(403, "Account is not active").refresh = NoToken

\* an account registered by password and not yet activated, and a banned OAuth account
C8_Witness ==
    /\ Exists(account, 2) /\ account[2].status = "inactive"
    /\ LoginResponse(account, now, account[2].username, "pw", "").status = 403
    /\ account[1].status = "banned"
    /\ \E pr \in Providers, ud \in OAuthUsers : 1 \in LoginWithOAuth(account, pr, ud.ID)
    /\ OAuthLoginResponse(account, 1, now).status = 403

\* what makes a login response well formed for account a
GoodLoginResponse(rsp, a) ==
    /\ rsp.id = a
    /\ rsp.access.token_type = "access-token" /\ rsp.refresh.token_type = "refresh-token"
    /\ rsp.access.id = a /\ rsp.refresh.id = a
    /\ rsp.access.version = Stored(a) /\ rsp.refresh.version = Stored(a)

\* C9: a successful login returns one access and one refresh token for the account
\* that logged in, both with the token_version the store holds for it.
C9_LoginTokenPair ==
    /\ \A u \in Usernames, p \in Passwords :
          LoginResponse(account, now, u, p, "").status = 200 =>
             \E a \in GetAccountByUsername(account, u) :
                GoodLoginResponse(LoginResponse(account, now, u, p, ""), a)
    /\ \A a \in AccId :
          (Exists(account, a) /\ OAuthLoginResponse(account, a, now).status = 200) =>
             GoodLoginResponse(OAuthLoginResponse(account, a, now), a)
    /\ \A i \in issued :
          i.by = "login" =>
             /\ i.token.version = i.stored /\ i.token.id = i.accID
             /\ i.token.token_type = i.tokenType
             /\ \E j \in issued :
                   /\ j.by = "login" /\ j.accID = i.accID /\ j.token.version = i.token.version
                   /\ j.token.iat = i.token.iat /\ j.tokenType # i.tokenType

\* a password login after an increment has handed out its two tokens at version 2
C9_Witness ==
    /\ \E u \in Usernames : LoginResponse(account, now, u, "pw", "").status = 200
                            /\ LoginResponse(account, now, u, "pw", "").access.version = 2
                            /\ LoginResponse(account, now, u, "pw", "").refresh.version = 2
    /\ \E i, j \in issued : /\ i.by = "login" /\ i.accID = 1 /\ i.token.version = 2
                            /\ j.by = "login" /\ j.accID = 1 /\ j.token.version = 2
                            /\ i.tokenType = "access-token" /\ j.tokenType = "refresh-token"

\* C10: every token_version is at least 1; a row is created with version 1; a step
\* leaves the version of a row as it is or raises it by exactly 1, and no row vanishes.
C10_VersionMonotone ==
    [][\A id \in AccId :
          /\ Exists(account, id) => account[id].token_version >= 1
          /\ Exists(account', id) => account'[id].token_version >= 1
          /\ (~Exists(account, id) /\ Exists(account', id)) => account'[id].token_version = 1
          /\ Exists(account, id) =>
                /\ Exists(account', id)
                /\ account'[id].token_version \in
                      {account[id].token_version, account[id].token_version + 1}]_vars

\* both ways of creating a row have run and a version has been raised twice
C10_Witness ==
    /\ account[1].token_version = 3
    /\ Exists(account, 2) /\ account[2].token_version = 1
    /\ account[2].status = "active" /\ account[2].password # NULL

\* the rows added by a step
NewRows == {id \in AccId : ~Exists(account, id) /\ Exists(account', id)}

\* a password login for the inactive account a is answered 403 without tokens
InactiveLoginRefused(acc, t, a, p) ==
    (Exists(acc, a) /\ acc[a].password # NULL /\ acc[a].status = "inactive") =>
       /\ LoginResponse(acc, t, acc[a].username, p, "") = WriteError(403, "Account is not active")
       /\ LoginResponse(acc, t, acc[a].username, p, "").access = NoToken
       /\ LoginResponse(acc, t, acc[a].username, p, "").refresh = NoToken

\* C11: the INSERT of a HandleRegister adds one account, with status inactive and
\* the password of the request, and the rest of the handler leaves the table as it
\* is; while an account with a password is inactive every password login for it is
\* answered 403 "Account is not active" without tokens, and no step hands out a
\* token of it; after any step that makes the account active, the login with its
\* password is answered 200 with an access and a refresh token of the account.
C11_RegistrationLifecycle ==
    [][/\ \A a \in AccId, p \in Passwords :
            /\ InactiveLoginRefused(account, now, a, p)
            /\ InactiveLoginRefused(account', now', a, p)
       /\ \A i \in issued' \ issued :
            /\ account[i.accID].status = "active"
            /\ \E j \in issued' : /\ j.accID = i.accID /\ j.tokenType # i.tokenType
                                   /\ j.token.iat = i.token.iat
       /\ \A r \in Req :
            /\ (req[r].pc = "ready" /\ req'[r].pc = "register") =>
                  /\ Cardinality(NewRows) = 1
                  /\ \A a \in NewRows :
                        /\ req'[r].created = a
                        /\ account'[a].status = "inactive"
                        /\ BcryptCompare(account'[a].password, "pw")
                        /\ \A id \in AccId \ {a} : account'[id] = account[id]
            /\ (req[r].pc \in {"register", "register_cover", "register_mail"}
                /\ req'[r] # req[r]) =>
                  /\ account' = account
                  /\ Exists(account, req[r].created)
            /\ (req[r].pc = "register_mail" /\ mailed' # mailed) =>
                  mailed' \ mailed = {MailRec(VerificationToken(req[r].created, req[r].stamp),
                                              "register")}
       /\ \A a \in AccId :
            (/\ Exists(account, a) /\ account[a].password # NULL
             /\ account[a].status = "inactive" /\ account'[a].status = "active") =>
               /\ LoginResponse(account', now', account'[a].username, "pw", "").status = 200
               /\ LoginResponse(account', now', account'[a].username, "pw", "").id = a
               /\ LoginResponse(account', now', account'[a].username, "pw", "").access.token_type
                     = "access-token"
               /\ LoginResponse(account', now', account'[a].username, "pw", "").refresh.token_type
                     = "refresh-token"
               /\ LoginResponse(account', now', account'[a].username, "pw", "").access.id = a
               /\ LoginResponse(account', now', account'[a].username, "pw", "").refresh.id = a]_vars

\* an account registered on a new deployment has been activated and has logged in
C11_Witness ==
    /\ baseVersion[1] = 1 /\ incrCount[1] = 0
    /\ account[1].password # NULL /\ BcryptCompare(account[1].password, "pw")
    /\ account[1].status = "active"
    /\ account[1].username = "u2"
    /\ \E i \in issued : i.accID = 1 /\ i.tokenType = "refresh-token" /\ i.token.iat = 90

\* a login response with an access and a refresh token for account a at version v
TokensFor(rsp, a, v) ==
    /\ rsp.status = 200 /\ rsp.id = a
    /\ rsp.access.token_type = "access-token" /\ rsp.refresh.token_type = "refresh-token"
    /\ rsp.access.id = a /\ rsp.refresh.id = a
    /\ rsp.access.version = v /\ rsp.refresh.version = v

\* C12: a callback is routed to registration only for an identity no row holds; its
\* INSERT, when the database accepts it, adds exactly one row, active, at
\* token_version 1, with that identity, and builds both tokens of the new account;
\* the request then ends with the table as it is and with these two tokens handed
\* out.  A later callback for a registered identity adds no row and answers 200 with
\* both tokens of the account that holds the identity (while it is active).
C12_OAuthLoginOrRegister ==
    [][\A r \in Req :
          /\ (req[r].pc = "oauth" /\ req'[r].pc = "oauth_register") =>
                ~IsAccountRegistered(account, req[r].provider, req[r].userData.ID)
          /\ (req[r].pc = "oauth" /\ req'[r].pc = "oauth_login") =>
                IsAccountRegistered(account, req[r].provider, req[r].userData.ID)
          /\ (req[r].pc = "oauth_register" /\ req'[r].pc = "oauth_created") =>
                /\ Cardinality(NewRows) = 1
                /\ \A a \in NewRows :
                      /\ account'[a].status = "active" /\ account'[a].token_version = 1
                      /\ account'[a].oauth_provider = req[r].provider
                      /\ account'[a].oauth_provider_id = req[r].userData.ID
                      /\ req'[r].created = a
                      /\ TokensFor(req'[r].resp, a, 1)
          /\ (req[r].pc \in {"oauth_created", "oauth_cover", "oauth_download"}
              /\ req'[r].pc = "ready") =>
                /\ account' = account
                /\ TokensFor(req[r].resp, req[r].created, 1)
                /\ req[r].resp.access \in {i.token : i \in issued'}
                /\ req[r].resp.refresh \in {i.token : i \in issued'}
          /\ (req[r].pc = "oauth_login" /\ handleOAuthLogin(r, "")) =>
                /\ account' = account
                /\ \A a \in LoginWithOAuth(account, req[r].provider, req[r].userData.ID) :
                      account[a].status = "active" =>
                         /\ TokensFor(OAuthLoginResponse(account, a, now), a, account[a].token_version)
                         /\ account[a].oauth_provider = req[r].provider
                         /\ account[a].oauth_provider_id = req[r].userData.ID]_vars

\* the (provider, provider ID) pairs the callbacks can present
Identities == {<<pr, ud.ID>> : pr \in Providers, ud \in OAuthProfiles}

\* C13: at most one account exists per (provider, provider-assigned ID).
C13_OneAccountPerIdentity ==
    \A idn \in Identities : Cardinality(LoginWithOAuth(account, idn[1], idn[2])) <= 1

\* the signature of tok is valid, it has not expired, and its version differs from
\* the stored one
Stale(tok, acc, t) ==
    /\ ~Malformed(tok) /\ tok.alg \in HmacFamily /\ tok.sig = SecretKey
    /\ t < tok.exp + Leeway
    /\ Exists(acc, tok.id) /\ GetTokenVersion(acc, tok.id) # tok.version

\* C14: AuthMiddleware answers 401 to an expired token and to a token whose version is
\* stale, 400 to a malformed token and to a token of the wrong kind for the endpoint.
C14_TokenErrorStatus ==
    \A tok \in Held \cup {NoToken}, ep \in AuthEndpoints :
       LET rsp == MiddlewareResponse(account, now, PathOf(ep), TRUE, tok, "")
           res == VerifyToken(tok, account, now, "")
       IN /\ res.err = "token is expired" => rsp.status = 401
          /\ Stale(tok, account, now) => rsp.status = 401
          /\ Malformed(tok) => rsp.status = 400
          /\ (res.err = "" /\ ~KindAllowed(res.claims.TokenType, PathOf(ep))) => rsp.status = 400

\* the failures of the database itself (not "no rows")
DbFailures == DbErrors \ {""}

\* C15: when the database fails during the token-version lookup of the verification,
\* or during the increment of logout or refresh, the response is a 5xx.
C15_PersistenceError5xx ==
    \A dbErr \in DbFailures :
       /\ \A tok \in Held, ep \in AuthEndpoints :
             VerifyToken(tok, account, now, "").err \in {"", "token version is not valid"} =>
                MiddlewareResponse(account, now, PathOf(ep), TRUE, tok, dbErr).status >= 500
       /\ LogoutResponse(dbErr).status >= 500
       /\ IncrementResponse(dbErr).status >= 500

\* C16: the body of a response does not depend on the text of the database error:
\* whatever the failure, AuthMiddleware, HandleLogin, HandleLogout and HandleRefreshToken
\* answer with the same fixed message.
C16_NoDbErrorText ==
    \A e1 \in DbFailures, e2 \in DbFailures :
       /\ \A tok \in Held, ep \in AuthEndpoints :
             MiddlewareResponse(account, now, PathOf(ep), TRUE, tok, e1).msg
                = MiddlewareResponse(account, now, PathOf(ep), TRUE, tok, e2).msg
       /\ \A u \in Usernames, p \in Passwords :
             LoginResponse(account, now, u, p, e1).msg = LoginResponse(account, now, u, p, e2).msg
       /\ LogoutResponse(e1).msg = LogoutResponse(e2).msg
       /\ IncrementResponse(e1).msg = IncrementResponse(e2).msg

\* password is not the password of the row acc[a]
WrongPassword(acc, a, password) ==
    acc[a].password = NULL \/ ~BcryptCompare(acc[a].password, password)

\* C17: a password login with a wrong password is answered 400 "Invalid username or
\* password" whether no account has the username or one has, whatever its status
\* and its way of authenticating.
C17_UniformLoginError ==
    \A u \in Usernames, p \in Passwords :
       (\A a \in GetAccountByUsername(account, u) : WrongPassword(account, a, p)) =>
          LoginResponse(account, now, u, p, "") = WriteError(400, "Invalid username or password")

\* the call a callback waiting for the provider makes next
ProviderCall(pc) == IF pc = "exchange" THEN "ExchangeToken" ELSE "FetchUser"

\* C18: a callback makes every call to the provider once: a step of a request that
\* waits for the code exchange takes it to the profile fetch or ends it.  A callback
\* whose code exchange or profile fetch fails ends with that call, after one
\* ExchangeToken and at most one FetchUser, answered 500 without tokens; it does not
\* enter handleOAuth, adds no account and hands out no token.
C18_ProviderFailure ==
    [][\A r \in Req :
          /\ (req[r].pc = "exchange" /\ req'[r] # req[r]) => req'[r].pc \in {"fetch", "ready"}
          /\ (req[r].pc = "fetch" /\ req'[r] # req[r]) => req'[r].pc \in {"oauth", "ready"}
          /\ (req[r].pc \in {"exchange", "fetch"} /\ req'[r].pc = "ready") =>
                /\ account' = account /\ issued' = issued /\ handed' = handed
                /\ req'[r] = IdleReq
                /\ Append(req[r].calls, ProviderCall(req[r].pc))
                      \in {<<"ExchangeToken">>, <<"ExchangeToken", "FetchUser">>}
                /\ \E c \in callbacks' :
                      /\ c.calls = Append(req[r].calls, ProviderCall(req[r].pc))
                      /\ c.wrote.status = 500
                      /\ c.wrote.access = NoToken /\ c.wrote.refresh = NoToken
                /\ \A c \in callbacks' \ callbacks :
                      c.calls = Append(req[r].calls, ProviderCall(req[r].pc))]_vars

\* on a new deployment a callback has failed at the code exchange and another at the
\* profile fetch; the table is empty and no token was handed out
C18_Witness ==
    /\ CallbackRec(<<"ExchangeToken">>, WriteError(500, "Failed to exchange token")) \in callbacks
    /\ CallbackRec(<<"ExchangeToken", "FetchUser">>,
                   WriteError(500, "Failed to fetch user data")) \in callbacks
    /\ \A id \in AccId : ~Exists(account, id)
    /\ issued = {} /\ handed = 0
    /\ \A r \in Req : req[r].pc = "ready"

\* C19: when CreateUserRepo fails during the OAuth registration of a new identity,
\* the account that was created stays and the callback is still answered 200 with the
\* access and the refresh token of the new account.
C19_AssetFailureTolerated ==
    [][\A r \in Req :
          \A repo \in RepoOutcomes \ {"ok"} :
             (\/ req[r].pc = "oauth_created" /\ handleOAuthRegisterRepo(r, repo)
              \/ req[r].pc = "oauth_cover" /\ handleOAuthRegisterRepoCover(r, repo)) =>
                /\ Exists(account', req[r].created)
                /\ TokensFor(OAuthCreatedResponse(req[r].resp, FALSE), req[r].created, 1)]_vars

\* the field-identifying answers to a duplicate email or username
TakenResponses == {WriteError(400, "Email is already taken"),
                   WriteError(400, "Username is already taken")}

\* C20: a HandleRegister or an OAuth registration whose email or username another
\* account holds is answered 400 "Email is already taken" or "Username is already
\* taken".
C20_UniqueConflict400 ==
    \A e \in Emails, u \in Usernames :
       UniqueViolation(account, e, u) # "" =>
          /\ RegisterResponse(account, e, u, TRUE, TRUE) \in TakenResponses
          /\ OAuthRegisterResponse(account, 0, now, UniqueViolation(account, e, u), TRUE)
                \in TakenResponses

\* C21: the step of HandleLockAccount that runs the LockAccount query raises the
\* token_version of the account by one, and after it every token handed out for the
\* account before fails verification.
C21_LockInvalidates ==
    [][\A r \in Req :
          (req[r].pc = "lock" /\ HandleLockAccountLock(r, "")) =>
             /\ account'[req[r].pathID].status = "locked"
             /\ GetTokenVersion(account', req[r].pathID) = Stored(req[r].pathID) + 1
             /\ \A i \in issued :
                   i.accID = req[r].pathID => VerifyToken(i.token, account', now', "").err # ""]_vars

\* tok passes every check of VerifyToken against the table acc at time t, and the
\* token-type check of AuthMiddleware for path
Verified(tok, acc, t, path) ==
    /\ tok.alg \in HmacFamily /\ tok.sig = SecretKey
    /\ t < tok.exp + Leeway
    /\ tok.iss = Issuer
    /\ Exists(acc, tok.id) /\ acc[tok.id].token_version = tok.version
    /\ (tok.token_type = "refresh-token") <=> (path = RefreshPath)
    /\ tok.token_type \in {"refresh-token", "access-token"}

\* on every protected route AuthMiddleware answers 401 to a request without a "Bearer "
\* Authorization header, and calls the handler only for a token of toks that passes
\* every check
GatePolicy(acc, t, toks) ==
    \A ep \in ProtectedRoutes, tok \in toks, dbErr \in DbErrors :
       /\ MiddlewareResponse(acc, t, PathOf(ep), FALSE, tok, dbErr)
             = WriteError(401, "Missing request header")
       /\ MiddlewareResponse(acc, t, PathOf(ep), TRUE, tok, dbErr) = NoResponse =>
             (Verified(tok, acc, t, PathOf(ep)) /\ dbErr = "")

\* C22: a request reaches the handler of a protected route only by the step of
\* AuthMiddleware in which its bearer token passed the signature, expiry, version and
\* kind checks, and the table changes only in a step of such a request; on every
\* protected route a request without a "Bearer " Authorization header is answered 401
\* and goes no further.
C22_HandlerBehindVerification ==
    [][/\ \A r \in Req :
             /\ (req[r].pc # "handler" /\ req'[r].pc = "handler") =>
                   /\ req[r].pc = "ready"
                   /\ Verified(req'[r].token, account, now, req'[r].path)
                   /\ req'[r].claims = ClaimsOf(req'[r].token)
             /\ (req[r].pc # "lock" /\ req'[r].pc = "lock") => req[r].pc = "handler"
       /\ account' # account =>
             \E r \in Req : req[r].pc \in {"handler", "lock"} /\ req'[r].pc = "ready"
       /\ (account' # account \/ issued' # issued \/ now' # now) =>
             /\ GatePolicy(account, now, Presented)
             /\ GatePolicy(account', now', PresentedOf({i.token : i \in issued'}))]_vars

\* a handler is running for a verified token while the client holds a token that has
\* gone stale and forgeries, all of which the middleware turns away
C22_Witness ==
    /\ \E r \in Req : req[r].pc = "handler" /\ req[r].ep = "POST /auth/logout"
                      /\ Verified(req[r].token, account, now, req[r].path)
    /\ \E tok \in Held :
          /\ Stale(tok, account, now)
          /\ \A ep \in ProtectedRoutes :
                MiddlewareResponse(account, now, PathOf(ep), TRUE, tok, "").status = 400
    /\ \E tok \in Presented \ Held :
          /\ tok # NoToken
          /\ \A ep \in ProtectedRoutes :
                MiddlewareResponse(account, now, PathOf(ep), TRUE, tok, "").status = 400

\* the row has a password hash and no external identity, or an external identity
\* (provider and provider ID) and no password hash
OneCredential(row) ==
    \/ row.password # NULL /\ row.oauth_provider = NULL /\ row.oauth_provider_id = NULL
    \/ row.password = NULL /\ row.oauth_provider # NULL /\ row.oauth_provider_id # NULL

\* C23: every account has exactly one of a password hash and an external identity;
\* a row created by HandleRegister has the hash only, a row created by the OAuth
\* registration the identity only, and no step changes the hash or the identity of a
\* row that exists.
C23_OneCredential ==
    [][account' # account =>
          \A id \in AccId :
             /\ Exists(account, id) => OneCredential(account[id])
             /\ Exists(account', id) => OneCredential(account'[id])
             /\ Exists(account, id) =>
                   /\ account'[id].password = account[id].password
                   /\ account'[id].oauth_provider = account[id].oauth_provider
                   /\ account'[id].oauth_provider_id = account[id].oauth_provider_id
             /\ (id \in NewRows /\ \E r \in Req, e \in Emails, u \in Usernames, salt \in Salts :
                                      HandleRegister(r, e, u, "pw", salt, "")) =>
                   /\ account'[id].password \in {BcryptHash("pw", salt) : salt \in Salts}
                   /\ account'[id].oauth_provider = NULL
             /\ (id \in NewRows /\ \E r \in Req, dbErr \in DbErrors :
                                      handleOAuthRegister(r, dbErr)) =>
                   /\ account'[id].password = NULL
                   /\ \E r \in Req : /\ account'[id].oauth_provider = req[r].provider
                                     /\ account'[id].oauth_provider_id = req[r].userData.ID]_vars

\* a password account has been locked and logged out, next to an account an OAuth
\* callback has registered
C23_Witness ==
    /\ account[1].password # NULL /\ account[1].status = "locked" /\ incrCount[1] >= 1
    /\ Exists(account, 2) /\ account[2].password = NULL /\ account[2].oauth_provider \in Providers

\* the times of a verification around the expiry of tok: before it, within the
\* leeway, at its end, and after it
ExpiryTimes(tok) ==
    {0, tok.exp - 1, tok.exp, tok.exp + 1, tok.exp + Leeway - 1, tok.exp + Leeway,
     tok.exp + Leeway + 1, tok.exp + 10 * Leeway}

\* C24: a token handed out by the server whose version matches the stored one verifies
\* at every time before its expires-at plus 30 seconds; at every time after that,
\* whatever the stored version, VerifyToken fails with the expiry error and
\* AuthMiddleware answers 401 "Access token expired".
C24_ExpiryLeeway ==
    \A i \in issued :
       \A t \in ExpiryTimes(i.token) :
          /\ (t < i.token.exp + Leeway /\ i.token.version = Stored(i.accID)) =>
                /\ VerifyToken(i.token, account, t, "").err = ""
                /\ VerifyToken(i.token, account, t, "").claims.ExpiresAt = i.token.exp
          /\ t > i.token.exp + Leeway =>
                /\ VerifyToken(i.token, account, t, "").err = "token is expired"
                /\ \A ep \in ProtectedRoutes, dbErr \in DbErrors :
                      MiddlewareResponse(account, t, PathOf(ep), TRUE, i.token, dbErr)
                         = WriteError(401, "Access token expired")

\* the clock has passed the expiry of an access token by the leeway: AuthMiddleware
\* answers it 401 now, it verified one second earlier, and a token whose version has
\* gone stale fails with the expiry error one second after its own leeway
C24_Witness ==
    /\ \E i \in issued :
          /\ i.token.version = Stored(i.accID)
          /\ now = i.token.exp + Leeway
          /\ VerifyToken(i.token, account, now - 1, "").err = ""
          /\ MiddlewareResponse(account, now, "/auth/logout", TRUE, i.token, "").status = 401
    /\ \E i \in issued :
          /\ i.token.version < Stored(i.accID)
          /\ VerifyToken(i.token, account, i.token.exp + Leeway - 1, "").err
                = "token version is not valid"
          /\ VerifyToken(i.token, account, i.token.exp + Leeway + 1, "").err = "token is expired"

\* C27: a handler behind AuthMiddleware changes the table (an increment of
\* token_version, a lock) only for a request whose token still carries the stored
\* version of its account at that moment: none does so for a token minted before an
\* increment that has committed.
C27_NoChangeAfterInvalidation ==
    [][\A r \in Req :
          (/\ req[r].pc \in {"handler", "lock"}
           /\ req'[r].pc = "ready"
           /\ account' # account) =>
             req[r].token.version = Stored(req[r].token.id)]_vars

\* tokens carrying the server's signature with another HMAC method, a non-HMAC
\* method, another issuer or another token type
Variants(tok) ==
    {[tok EXCEPT !.alg = "HS512"], [tok EXCEPT !.alg = "RS256"],
     [tok EXCEPT !.iss = "Other"], [tok EXCEPT !.token_type = "id-token"]}

\* the token strings VerifyToken is called with
TokenInputs == Presented \cup UNION {Variants(tok) : tok \in Held}

\* the two token types of the service
Kinds == {"access-token", "refresh-token"}

\* tok passes the signature (HMAC family, server key), expiry, issuer and kind checks
PreChecks(tok, t) ==
    /\ ~Malformed(tok)
    /\ tok.alg \in HmacFamily /\ tok.sig = SecretKey
    /\ t < tok.exp + Leeway
    /\ tok.iss = Issuer
    /\ tok.token_type \in Kinds

\* the states of the store a lookup could see: the table, an empty one, and the table
\* with every version raised
StoreStates(acc) ==
    {acc, [id \in AccId |-> NoRow],
     [id \in AccId |-> IF acc[id] = NoRow THEN NoRow ELSE [acc[id] EXCEPT !.token_version = @ + 1]]}

\* C28: VerifyToken sends the GetTokenVersion query exactly for the tokens that passed
\* the signature, expiry, issuer and kind checks: for any other token it fails with a
\* result that depends neither on the store nor on what the database answers, and for
\* those its result changes when the database fails.  AuthMiddleware checks the kind
\* against the endpoint only after the version check: a token of the wrong kind for
\* the route whose version is stale is answered with the version error.
C28_VerificationOrder ==
    \A tok \in TokenInputs :
       /\ StoreLookups(tok, now) = IF PreChecks(tok, now) THEN 1 ELSE 0
       /\ ~PreChecks(tok, now) =>
             /\ VerifyToken(tok, account, now, "").err # ""
             /\ \A acc \in StoreStates(account), dbErr \in DbErrors :
                   VerifyToken(tok, acc, now, dbErr) = VerifyToken(tok, account, now, "")
       /\ PreChecks(tok, now) =>
             /\ \A dbErr \in DbFailures :
                   VerifyToken(tok, account, now, dbErr).err
                      = "cannot get token version from database: " \o dbErr
             /\ \A ep \in ProtectedRoutes :
                   ~((tok.token_type = "refresh-token") <=> (PathOf(ep) = RefreshPath)) =>
                      MiddlewareResponse(account, now, PathOf(ep), TRUE, tok, "").msg =
                         IF GetTokenVersionErr(account, tok.id, "") # ""
                         THEN "Invalid access token: cannot get token version from database: "
                                 \o ErrNoRows
                         ELSE IF GetTokenVersion(account, tok.id) # tok.version
                         THEN "Invalid access token: token version is not valid"
                         ELSE "Invalid access token: unsuitable token type for this request"

\* the clock has passed the expiry of the first access token, whose refresh token has
\* gone stale and is answered with the version error on the logout route, while a
\* current access token is answered with the kind error on the refresh route
C28_Witness ==
    /\ \E tok \in Held : /\ ParseClaims(tok, now).err = "token is expired"
                         /\ StoreLookups(tok, now) = 0
    /\ \E tok \in Held :
          /\ tok.token_type = "refresh-token" /\ Stale(tok, account, now)
          /\ StoreLookups(tok, now) = 1
          /\ MiddlewareResponse(account, now, "/auth/logout", TRUE, tok, "").msg
                = "Invalid access token: token version is not valid"
    /\ \E tok \in Held :
          /\ tok.token_type = "access-token"
          /\ MiddlewareResponse(account, now, RefreshPath, TRUE, tok, "").msg
                = "Invalid access token: unsuitable token type for this request"

\* C29: HandleLockAccount, for a request whose token subject equals the account ID of
\* the path and whose account GetProfile reports active, goes on to the LockAccount
\* query (which sets the status to locked and is answered 201) instead of returning
\* before it.
C29_LockActiveAccount ==
    [][\A r \in Req :
          (/\ req[r].pc = "handler"
           /\ req[r].ep = "POST /accounts/{id}/lock"
           /\ checkIDMatch(req[r].claims, req[r].pathID)
           /\ checkAccountStatus(account, req[r].pathID, "")
           /\ HandleLockAccount(r, "")) =>
             /\ ~LockReturns(account, req[r].claims, req[r].pathID, "")
             /\ req'[r].pc = "lock"
             /\ LockAccount(account, req[r].pathID)[req[r].pathID].status = "locked"
             /\ ClientResponse(LockWrites(<<>>, req[r].pathID, "")).status = 201]_vars

\* C30: a verification request, even with an unexpired link, leaves the status of a
\* locked or banned account as it is.
C30_VerifyOnlyInactive ==
    [][\A id \in AccId :
          (/\ Exists(account, id)
           /\ account[id].status \in {"locked", "banned"}
           /\ \E age \in LinkAges, dbErr \in DbErrors : HandleVerify(id, now - age, dbErr)) =>
             account'[id].status = account[id].status]_vars

\* C31: a step of HandleVerify that makes an account active is made with a
\* verification token sendVerificationEmail has sent for that account.
C31_ActivationNeedsMailedToken ==
    [][\A id \in AccId :
          (/\ Exists(account, id)
           /\ account[id].status # "active"
           /\ account'[id].status = "active") =>
             \E m \in mailed, dbErr \in DbErrors : m.id = id /\ HandleVerify(id, m.timestamp, dbErr)]_vars

\* C32: a verification request with an unexpired link that names an account ID no
\* row has is answered 400 "Account does not exist".
C32_VerifyAbsentAccount400 ==
    \A id \in 1..(MaxAccounts + 1), age \in LinkAges :
       (~Exists(account, id) /\ age <= VerificationLinkTTL) =>
          /\ ActivateAccount(account, id) = account
          /\ VerifyResponse(now, now - age, "") = WriteError(400, "Account does not exist")

\* C33: a step of HandleRefreshToken that answers 200 hands out an access token and
\* no refresh token, after it every refresh token handed out so far for the account
\* fails verification, and the refresh token it was made with was still at the stored
\* version (no earlier refresh had succeeded since that token's login).
C33_RefreshEndsRefreshTokens ==
    [][\A r \in Req :
          (/\ account' # account
           /\ req[r].pc = "handler" /\ IsRefreshEndpoint(req[r].ep)
           /\ req'[r].pc = "ready") =>
             /\ RefreshResponse(req[r].claims, now).status = 200
             /\ RefreshResponse(req[r].claims, now).access.token_type = "access-token"
             /\ RefreshResponse(req[r].claims, now).refresh = NoToken
             /\ \A i \in issued' : i.by = "refresh" => i.tokenType = "access-token"
             /\ \A i \in issued :
                   (i.accID = req[r].claims.ID /\ i.tokenType = "refresh-token") =>
                      VerifyToken(i.token, account', now, "").err # ""
             /\ req[r].claims.Version = Stored(req[r].claims.ID)]_vars

\* C34: a step of HandleLogin, or of the OAuth login of a registered identity,
\* leaves the account table as it is (token_version and status included), and every
\* token that verified before the step verifies after it.
C34_LoginChangesNothing ==
    [][(\/ \E u \in Usernames, p \in Passwords, dbErr \in DbErrors : HandleLogin(u, p, dbErr)
        \/ \E r \in Req, dbErr \in DbErrors :
              req[r].pc = "oauth_login" /\ handleOAuthLogin(r, dbErr)) =>
          /\ account' = account
          /\ \A i \in issued :
                VerifyToken(i.token, account, now, "").err = "" =>
                   VerifyToken(i.token, account', now', "").err = ""]_vars

\* two password logins of one account at different times whose refresh tokens both
\* verify, the stored version being the one of the first login
C34_Witness ==
    /\ \E i, j \in issued :
          /\ i.accID = j.accID /\ i.by = "login" /\ j.by = "login"
          /\ account[i.accID].password # NULL
          /\ i.tokenType = "refresh-token" /\ j.tokenType = "refresh-token"
          /\ i.token.iat < j.token.iat
          /\ VerifyToken(i.token, account, now, "").err = ""
          /\ VerifyToken(j.token, account, now, "").err = ""
          /\ account[i.accID].token_version = i.stored

\* C35: a step of HandleLogout or HandleRefreshToken that changes the table raises
\* the token_version of the account of the request's token by one and leaves every
\* other row as it is; the tokens of every other account verify after the step exactly
\* as before it.
C35_InvalidationPerAccount ==
    [][\A r \in Req :
          (/\ account' # account
           /\ req[r].pc = "handler"
           /\ req[r].ep \in {"POST /auth/logout", "POST /auth/token/refresh"}
           /\ req'[r].pc = "ready") =>
             /\ account'[req[r].claims.ID].token_version
                   = account[req[r].claims.ID].token_version + 1
             /\ \A id \in AccId \ {req[r].claims.ID} : account'[id] = account[id]
             /\ \A i \in issued :
                   i.accID # req[r].claims.ID =>
                      VerifyToken(i.token, account', now, "") = VerifyToken(i.token, account, now, "")]_vars

\* account 1 has logged out or refreshed, its earlier tokens are refused, and a token
\* of account 2 handed out before that still verifies
C35_Witness ==
    /\ \E a, b \in AccId :
          /\ a # b /\ incrCount[a] >= 1 /\ incrCount[b] = 0
          /\ \E i \in issued : i.accID = a /\ VerifyToken(i.token, account, now, "").err # ""
          /\ \E i \in issued : i.accID = b /\ VerifyToken(i.token, account, now, "").err = ""

\* C36: a step of HandleEditProfile, HandleLockAccount, HandleSubscribe or
\* HandleUnsubscribe changes only the row and the files of the token's subject, named
\* by the request, or subscriptions whose subscriber is the token's subject; a request
\* naming another account ID is answered 400, goes no further and changes nothing.
C36_OwnAccountOnly ==
    [][\A r \in Req :
          (/\ req[r].pc \in {"handler", "lock", "edit", "edit_cover", "edit_update",
                             "subscribe", "unsubscribe"}
           /\ req[r].ep \in AccountEndpoints
           /\ req'[r] # req[r]) =>
             /\ \A id \in AccId :
                   account'[id] # account[id] => id = req[r].claims.ID /\ id = req[r].pathID
             /\ \A pair \in (subscribe' \ subscribe) \cup (subscribe \ subscribe') :
                   pair[1] = req[r].claims.ID
             /\ \A file \in files' \ files : file[1] = req[r].claims.ID
             /\ req'[r].pc \in {"lock", "edit", "edit_cover", "edit_update"} =>
                   req[r].pathID = req[r].claims.ID
             /\ req'[r].pc \in {"subscribe", "unsubscribe"} =>
                   req'[r].body.subscriber_id = req[r].claims.ID
             /\ req[r].pc = "handler" =>
                \A id \in AccId \ {req[r].claims.ID}, dbErr \in DbErrors :
                   /\ ClientResponse(AccountCheckWrites(account, req[r].claims, id, dbErr)).status
                         = 400
                   /\ ~AccountChecksPass(account, req[r].claims, id, dbErr)
                   /\ LockReturns(account, req[r].claims, id, dbErr)
                   /\ \A t \in SubscribeToIds :
                         /\ ClientResponse(SubscribeCheckWrites(account, req[r].claims,
                                                                id, t, dbErr)).status = 400
                         /\ ~SubscribeGoesOn(account, req[r].claims, id, t, dbErr)
                   /\ req[r].pathID = id => (account' = account /\ req'[r] = IdleReq)]_vars

\* account 2 has edited its profile (row and files) and subscribed to account 1, and
\* account 1 has neither been edited nor subscribed
C36_Witness ==
    /\ account[2].description = "d1" /\ account[2].username = "u3"
    /\ account[1].description = NULL /\ account[1].username = "u1"
    /\ subscribe = {<<2, 1>>}
    /\ files = {<<2, "avatar.png">>, <<2, "cover.png">>}

\* C37: while the account of a verified token is not active, edit profile, subscribe
\* and unsubscribe requests for that account go no further than checkAccountStatus and
\* are answered with an error status (not 2xx).
C37_InactiveRequesterError ==
    \A r \in Req :
       (/\ req[r].pc = "handler"
        /\ req[r].ep \in {"PUT /accounts/{id}", "POST /subscribe", "DELETE /subscribe"}
        /\ Exists(account, req[r].claims.ID)
        /\ account[req[r].claims.ID].status # "active") =>
          /\ ~AccountChecksPass(account, req[r].claims, req[r].claims.ID, "")
          /\ ClientResponse(AccountCheckWrites(account, req[r].claims,
                                               req[r].claims.ID, "")).status >= 400
          /\ \A t \in AccId :
                /\ ~SubscribeGoesOn(account, req[r].claims, req[r].claims.ID, t, "")
                /\ ClientResponse(SubscribeCheckWrites(account, req[r].claims,
                                                       req[r].claims.ID, t, "")).status >= 400

\* C38: the INSERT of a HandleRegister adds the account inactive; when the rest of
\* the handler fails (CreateUserRepo or the verification mail) no link is mailed and
\* the account stays as it is; no registration adds a row with an email or a username
\* a row holds, so the same registration sent again adds none; while the account is
\* inactive a resend-verification request for its email that the database answers
\* goes on to mail a link for the account, stamped with the time of the request, and
\* a verification request with a mailed link that has not expired, answered by the
\* database, makes the account active.
C38_FailedRegistrationRecoverable ==
    [][/\ \A r \in Req :
            /\ (req[r].pc = "ready" /\ req'[r].pc = "register") =>
                  /\ ~Exists(account, req'[r].created)
                  /\ account'[req'[r].created].status = "inactive"
            /\ (/\ req[r].pc \in {"register", "register_cover", "register_mail"}
                /\ req'[r].pc = "ready" /\ mailed' = mailed) =>
                  /\ account' = account
                  /\ Exists(account', req[r].created)
            /\ \A e \in Emails :
                  (/\ req[r].pc = "ready"
                   /\ \E a \in GetAccountByEmail(account, e) : account[a].status = "inactive"
                   /\ HandleResendVerification(r, e, "")) =>
                     /\ req'[r].pc = "resend" /\ req'[r].stamp = now
                     /\ req'[r].created \in GetAccountByEmail(account, e)
            /\ (req[r].pc = "resend" /\ mailed' # mailed) =>
                  mailed' \ mailed = {MailRec(VerificationToken(req[r].created, req[r].stamp),
                                              "resend")}
       /\ \A a \in NewRows :
            \A id \in AccId :
               Exists(account, id) => /\ account[id].email # account'[a].email
                                      /\ account[id].username # account'[a].username
       /\ \A m \in mailed :
            (/\ Exists(account, m.id) /\ account[m.id].status = "inactive"
             /\ now - m.timestamp <= VerificationLinkTTL
             /\ HandleVerify(m.id, m.timestamp, "")) =>
               account'[m.id].status = "active"]_vars

\* an account registered by a request that failed after the INSERT (no link of the
\* registration was mailed for it) is active after a resend has mailed a link for it
C38_Witness ==
    \E id \in AccId :
       /\ Exists(account, id) /\ account[id].password # NULL
       /\ account[id].status = "active"
       /\ \E m \in mailed : m.id = id /\ m.by = "resend"
       /\ \A m \in mailed : m.id = id => m.by = "resend"
       /\ \A r \in Req : req[r].pc = "ready"

\* C39: every request HandleGetVideo has served got exactly one write; a deleted video
\* is answered 403 and a pending one 400, neither with the video data; the video data
\* is written with status 200 only for a video of another status.
C39_GetVideoOneResponse ==
    \A w \in written :
       /\ Len(w.writes) = 1
       /\ w.videoStatus = "deleted" => ClientResponse(w.writes).status = 403
       /\ w.videoStatus = "pending" => ClientResponse(w.writes).status = 400
       /\ w.videoStatus \in {"deleted", "pending"} =>
             \A i \in 1..Len(w.writes) : w.writes[i].msg # "getVideoResponse"
       /\ (\E i \in 1..Len(w.writes) : w.writes[i].msg = "getVideoResponse") =>
             /\ ClientResponse(w.writes).status = 200
             /\ w.videoStatus \in VideoStatuses \ {"deleted", "pending"}

====
